---------------------------- MODULE Spec2Model ----------------------------
(***************************************************************************)
(* Model of the escrow bot (src/bot.py): the deal store with its           *)
(* sequential deal_id allocation, the fee schedule, the form parser, the   *)
(* QR payment messages, the settings record, the admin dialogs that list,  *)
(* view, edit and delete a deal, change its status and change the QR       *)
(* image, the group commands and the scope middleware.                     *)
(*                                                                         *)
(* Text is a sequence of one-character strings.  Money is an integer       *)
(* number of hundredths (500.00 is 50000).                                 *)
(***************************************************************************)
EXTENDS Integers, Sequences, FiniteSets, TLC

VARIABLES
    deals,         \* the "deals" collection: a set of documents
    next_oid,      \* the next _id the driver gives an inserted document
    clock,         \* datetime.now(timezone.utc), as a tick count
    lock_holder,   \* DealService._lock: the cmd_save task holding it, or 0
    lock_waiters,  \* DealService._lock: the tasks waiting for it, first come first
    task,          \* the cmd_save tasks: [pc, parsed, fee, doc, reply]
    session,       \* FSMContext of each user: [state, data]
    edit,          \* the fsm_edit_deal_value call of each user that is in flight
    edits,         \* how many times each user has entered a dialog on a deal
    keyboards,     \* the deal ids and dialogs the dashboards hold buttons for
    assigned,      \* the values _next_deal_id returned, in order
    fee_call,      \* one call of FeeCalculator.calculate: [pc, amount, fee]
    form_call,     \* one call of _parse_form: [pc, text, result]
    settings,      \* the "settings" collection: a set of documents
    qr_messages,   \* the QR messages in the group: [deal_id, total, buttons]
    qr_call,       \* the cmd_qr call in flight: [pc, deal_id, total]
    list_call,     \* one call of DealService.list_deals: [pc, ..., total, deals]
    dispatcher     \* the Dispatcher: [update, notices, errors]

vars == <<deals, next_oid, clock, lock_holder, lock_waiters, task, session, edit,
          edits, keyboards, assigned, fee_call, form_call, settings, qr_messages,
          qr_call, list_call, dispatcher>>

store_vars == <<deals, next_oid, clock, lock_holder, lock_waiters, task, session,
                edit, edits, keyboards, assigned, settings, qr_messages, qr_call,
                list_call, dispatcher>>

(***************************************************************************)
(* Python values                                                           *)
(***************************************************************************)

\* Python's None, as a record so that it compares with dicts.
None == [none |-> TRUE]

\* The empty dict (FSMContext data after clear()).
EmptyDict == [k \in {} |-> 0]

\* re.search() returning no match, as a text no capture can equal.
NoMatch == <<"NoMatch">>

(***************************************************************************)
(* Characters and str methods                                              *)
(***************************************************************************)

Digits == {"0","1","2","3","4","5","6","7","8","9"}

DigitVal == [d \in Digits |->
    CASE d = "0" -> 0 [] d = "1" -> 1 [] d = "2" -> 2 [] d = "3" -> 3
      [] d = "4" -> 4 [] d = "5" -> 5 [] d = "6" -> 6 [] d = "7" -> 7
      [] d = "8" -> 8 [] d = "9" -> 9]

\* \s of the re module, over the characters the texts of the model use.
IsSpace(ch) == ch \in {" ", "\n", "\t"}

\* \S
IsNonSpace(ch) == ~IsSpace(ch)

\* . (without re.DOTALL)
IsNotNewline(ch) == ch # "\n"

\* [\d.]
IsNumChar(ch) == ch \in Digits \cup {"."}

UpperToLower ==
    [ch \in {"A","B","C","D","E","F","G","H","I","J","K","L","M",
             "N","O","P","Q","R","S","T","U","V","W","X","Y","Z"} |->
     CASE ch = "A" -> "a" [] ch = "B" -> "b" [] ch = "C" -> "c" [] ch = "D" -> "d"
       [] ch = "E" -> "e" [] ch = "F" -> "f" [] ch = "G" -> "g" [] ch = "H" -> "h"
       [] ch = "I" -> "i" [] ch = "J" -> "j" [] ch = "K" -> "k" [] ch = "L" -> "l"
       [] ch = "M" -> "m" [] ch = "N" -> "n" [] ch = "O" -> "o" [] ch = "P" -> "p"
       [] ch = "Q" -> "q" [] ch = "R" -> "r" [] ch = "S" -> "s" [] ch = "T" -> "t"
       [] ch = "U" -> "u" [] ch = "V" -> "v" [] ch = "W" -> "w" [] ch = "X" -> "x"
       [] ch = "Y" -> "y" [] ch = "Z" -> "z"]

\* Case folding of re.IGNORECASE.
Lower(ch) == IF ch \in DOMAIN UpperToLower THEN UpperToLower[ch] ELSE ch

\* Character classes of the patterns and of the str methods, by name.
InClass(ch, class) ==
    CASE class = "\\s" -> IsSpace(ch)
      [] class = "\\S" -> IsNonSpace(ch)
      [] class = "." -> IsNotNewline(ch)
      [] class = "[\\d.]" -> IsNumChar(ch)
      [] class = "@" -> ch = "@"

\* Index after the longest run of characters of the class that starts at q.
RunEnd(text, q, class) ==
    CHOOSE e \in q..(Len(text) + 1) :
        /\ \A k \in q..(e - 1) : InClass(text[k], class)
        /\ e = Len(text) + 1 \/ ~InClass(text[e], class)

\* str.strip()
strip(s) ==
    LET first == RunEnd(s, 1, "\\s")
        nonblank == {k \in 1..Len(s) : ~IsSpace(s[k])}
    IN  IF nonblank = {} THEN <<>>
        ELSE SubSeq(s, first, CHOOSE k \in nonblank : \A j \in nonblank : j <= k)

\* str.startswith(prefix)
startswith(s, prefix) == Len(s) >= Len(prefix) /\ SubSeq(s, 1, Len(prefix)) = prefix

\* The text as it is.
lstrip_nothing(s) == s

\* str.lstrip("@")
lstrip_at(s) == SubSeq(s, RunEnd(s, 1, "@"), Len(s))

(***************************************************************************)
(* float(): decimal numerals with an optional sign, value in hundredths.   *)
(* The texts of the model carry at most two fraction digits and none of    *)
(* the exponent, inf or nan spellings.                                     *)
(***************************************************************************)

RECURSIVE DigitsValue(_)
DigitsValue(s) ==
    IF s = <<>> THEN 0
    ELSE 10 * DigitsValue(SubSeq(s, 1, Len(s) - 1)) + DigitVal[s[Len(s)]]

\* The numeral without its sign.
unsigned(s) == IF s # <<>> /\ s[1] \in {"+", "-"} THEN SubSeq(s, 2, Len(s)) ELSE s

\* The unsigned numeral is not one float() accepts.
numeral_raises(body) ==
    LET dots == {k \in 1..Len(body) : body[k] = "."}
        digs == {k \in 1..Len(body) : body[k] \in Digits}
    IN  \/ digs = {}
        \/ Cardinality(dots) > 1
        \/ Cardinality(dots) + Cardinality(digs) # Len(body)

numeral_value(body) ==
    LET dots == {k \in 1..Len(body) : body[k] = "."}
        dot  == IF dots = {} THEN Len(body) + 1 ELSE CHOOSE k \in dots : TRUE
    IN  100 * DigitsValue(SubSeq(body, 1, dot - 1))
          + DigitsValue(SubSeq(SubSeq(body, dot + 1, Len(body)) \o <<"0","0">>, 1, 2))

signed_value(s) ==
    IF s # <<>> /\ s[1] = "-" THEN 0 - numeral_value(unsigned(s))
    ELSE numeral_value(unsigned(s))

\* float(raw) raises ValueError.
float_raises(raw) == numeral_raises(unsigned(strip(raw)))

\* float(raw) where it does not raise.
float_(raw) == signed_value(strip(raw))

(***************************************************************************)
(* FeeCalculator (src/bot.py 73-88)                                        *)
(***************************************************************************)

\* The amounts FeeCalculator.calculate is tabulated and checked on: one
\* rupee either side of each tier boundary, and the rupees 900 to 1000.
FeeAmounts ==
    (18900..19100) \cup (59800..60200) \cup (90000..100000)
        \cup (199900..200200) \cup (299900..300100)

\* amount * 0.035 and amount * 0.030 are binary64 products.  Where the
\* decimal product lies exactly half way between two hundredths, the
\* binary product does not: these are the amounts of FeeAmounts at which
\* it lies below (or, being exact, on an even hundredth), so that round()
\* gives the lower hundredth; at the other half-way amounts of FeeAmounts
\* it lies above and round() gives the upper one.
BinaryProductBelowHalf == {92300, 97300, 97500, 200150, 299950}

\* round(amount * rate, 2) with rate in thousandths, in hundredths.
round2(amount, rate) ==
    LET num == amount * rate
        q   == num \div 1000
        r   == num % 1000
    IN  IF r > 500 THEN q + 1
        ELSE IF r < 500 THEN q
        ELSE IF amount \in BinaryProductBelowHalf THEN q ELSE q + 1

calculate(amount) ==
    IF amount < 19000 THEN 1000
    ELSE IF amount <= 59900 THEN 2000
    ELSE IF amount <= 200000 THEN round2(amount, 35)
    ELSE IF amount <= 300000 THEN round2(amount, 30)
    ELSE round2(amount, 30)

(***************************************************************************)
(* _parse_form (src/bot.py 222-248)                                        *)
(***************************************************************************)

\* The six patterns, in dict order: the label and the shape of the group.
\*   "user"   \s*@?(\S+)      "token"  \s*(\S+)
\*   "line"   \s*(.+)         "number" \s*([\d.]+)
patterns == <<
    [key |-> "seller",      label |-> <<"S","e","l","l","e","r",":">>, group |-> "user"],
    [key |-> "buyer",       label |-> <<"B","u","y","e","r",":">>, group |-> "user"],
    [key |-> "details",     label |-> <<"D","e","t","a","i","l","s",":">>, group |-> "line"],
    [key |-> "amount",      label |-> <<"A","m","o","u","n","t",":">>, group |-> "number"],
    [key |-> "escrow_till", label |-> <<"E","s","c","r","o","w"," ","T","i","l","l",":">>, group |-> "line"],
    [key |-> "seller_upi",  label |-> <<"S","e","l","l","e","r"," ","U","P","I",":">>, group |-> "token"] >>

FormKeys == {patterns[k].key : k \in 1..Len(patterns)}

\* The literal part of a pattern matches at i, ignoring case.
LabelAt(text, i, label) ==
    /\ i + Len(label) - 1 <= Len(text)
    /\ \A k \in 1..Len(label) : Lower(text[i + k - 1]) = Lower(label[k])

\* What group(1) holds when the rest of a pattern is matched from p (the
\* position after the label) and \s* has run up to q, or NoMatch.  \s* is
\* greedy and gives back one character at a time.
GroupAt(text, p, q, group) ==
    CASE group = "token" ->
            IF q <= Len(text)
            THEN SubSeq(text, q, RunEnd(text, q, "\\S") - 1)
            ELSE NoMatch
      [] group = "user" ->
            IF q > Len(text) THEN NoMatch
            ELSE IF /\ text[q] = "@"
                    /\ q + 1 <= Len(text)
                    /\ IsNonSpace(text[q + 1])
                 THEN SubSeq(text, q + 1, RunEnd(text, q + 1, "\\S") - 1)
                 ELSE SubSeq(text, q, RunEnd(text, q, "\\S") - 1)
      [] group = "number" ->
            IF q <= Len(text) /\ IsNumChar(text[q])
            THEN SubSeq(text, q, RunEnd(text, q, "[\\d.]") - 1)
            ELSE NoMatch
      [] group = "line" ->
            IF q <= Len(text)
            THEN SubSeq(text, q, RunEnd(text, q, ".") - 1)
            ELSE LET back == {r \in p..(q - 1) : text[r] # "\n"}
                 IN  IF back = {} THEN NoMatch
                     ELSE LET r == CHOOSE x \in back : \A y \in back : y <= x
                          IN  SubSeq(text, r, RunEnd(text, r, ".") - 1)

GroupFrom(text, p, group) == GroupAt(text, p, RunEnd(text, p, "\\s"), group)

\* re.search(pattern, text, re.IGNORECASE).group(1): the leftmost match.
re_search(text, pat) ==
    LET hits == {i \in 1..Len(text) :
                    /\ LabelAt(text, i, pat.label)
                    /\ GroupFrom(text, i + Len(pat.label), pat.group) # NoMatch}
    IN  IF hits = {} THEN NoMatch
        ELSE LET i == CHOOSE x \in hits : \A y \in hits : x <= y
             IN  GroupFrom(text, i + Len(pat.label), pat.group)

\* The for loop over patterns.items(): None at the first pattern that
\* does not match, else the dict of the stripped groups.
RECURSIVE match_patterns(_, _, _)
match_group(text, k, result, m) ==
    IF m = NoMatch THEN None
    ELSE match_patterns(text, k + 1, (patterns[k].key :> strip(m)) @@ result)

match_patterns(text, k, result) ==
    IF k > Len(patterns) THEN result
    ELSE match_group(text, k, result, re_search(text, patterns[k]))

\* The conversions after the loop: float(result["amount"]) and lstrip("@").
convert(result) ==
    IF result = None THEN None
    ELSE IF float_raises(result["amount"]) THEN None
         ELSE [k \in DOMAIN result |->
                 CASE k = "amount" -> float_(result[k])
                   [] k \in {"seller", "buyer"} -> lstrip_at(result[k])
                   [] OTHER -> result[k]]

parse_form(text) == convert(match_patterns(text, 1, EmptyDict))

(***************************************************************************)
(* Bounds and configuration                                                *)
(***************************************************************************)

\* How many "save" messages the group sends (each runs cmd_save once).
NumTasks == 2

\* How many times the edit dialog is entered.
MaxEdits == 1

Tasks == 1..NumTasks

\* config.ADMIN_IDS, and one user who is not in it.
ADMIN_IDS == {"8313065945", "6670166083"}

Users == ADMIN_IDS \cup {"1001"}

\* The status bot.get_chat_member reports for the sender, or the call failing.
ChatMemberLookups == {"administrator", "creator", "member", "error"}

\* The editable fields: the buttons cb_deal_edit renders.
EditFields == {"seller", "buyer", "details", "amount", "escrow_till", "seller_upi"}

\* The texts "save" is sent in reply to: the template (config.FORM_TEMPLATE)
\* filled in, a form typed in lower case, and a form without its Details,
\* Escrow Till and Seller UPI lines.
FilledForm ==
    <<"S","e","l","l","e","r",":"," ","@","a","l","\n","B","u","y","e","r",":"," ","@","b","o","\n","D","e","t","a","i","l","s",":"," ","p","h","o","n","e","\n","A","m","o","u","n","t",":"," ","5","0","0","\n","E","s","c","r","o","w"," ","T","i","l","l",":"," ","f","r","i","\n","S","e","l","l","e","r"," ","U","P","I",":"," ","a","l","@","u","p","i">>

LowerCaseForm ==
    <<"s","e","l","l","e","r",":"," ","e","d","\n","b","u","y","e","r",":"," ","@","@","f","a","y","\n","d","e","t","a","i","l","s",":"," ","t","w","o"," ","r","i","n","g","s","\n","a","m","o","u","n","t",":"," ","1","8","9",".","9","9","\n","e","s","c","r","o","w"," ","t","i","l","l",":"," ","1"," ","m","a","y","\n","s","e","l","l","e","r"," ","u","p","i",":"," ","e","d","@","u","p","i","\n">>

ShortForm ==
    <<"S","e","l","l","e","r",":"," ","@","a","l","\n","B","u","y","e","r",":"," ","@","b","o","\n","A","m","o","u","n","t",":"," ","5","0","0","\n">>

SavedTexts == {FilledForm, LowerCaseForm, ShortForm}

\* What an admin types as a new value.
EditTexts == { <<"@","c","y">>, <<" ","7","0","0"," ">>, <<"4","5",".","5">> }

(***************************************************************************)
(* SettingsService / DealService (src/bot.py 125-211) over the collection  *)
(***************************************************************************)

\* The unique index on deal_id (BotApp._setup_indexes) refuses the document.
duplicate_key(docs, doc) == \E d \in docs : d.deal_id = doc.deal_id

\* insert_one without the unique index.
insert_one_unindexed(docs, doc) == docs \cup {doc}

\* collection.insert_one(doc) where the index admits it.
insert_one(docs, doc) == IF duplicate_key(docs, doc) THEN docs ELSE docs \cup {doc}

\* find_one({}, sort=[("deal_id", -1)]) and the return of _next_deal_id.
last_deal_id_plus_one(docs) ==
    IF docs = {} THEN 1
    ELSE (CHOOSE d \in docs : \A e \in docs : e.deal_id <= d.deal_id).deal_id + 1

\* A document with seller and buyer exchanged.
new_deal_swapped(parsed, fee, deal_id, now) ==
    [deal_id |-> deal_id, seller |-> parsed.buyer, buyer |-> parsed.seller,
     details |-> parsed.details, amount |-> parsed.amount,
     escrow_till |-> parsed.escrow_till, seller_upi |-> parsed.seller_upi,
     escrow_fee |-> fee, status |-> "pending", created_at |-> now]

\* A document stored as paid.
new_deal_paid(parsed, fee, deal_id, now) ==
    [deal_id |-> deal_id, seller |-> parsed.seller, buyer |-> parsed.buyer,
     details |-> parsed.details, amount |-> parsed.amount,
     escrow_till |-> parsed.escrow_till, seller_upi |-> parsed.seller_upi,
     escrow_fee |-> fee, status |-> "paid", created_at |-> now]

\* The document create_deal builds.
new_deal(parsed, fee, deal_id, now) ==
    [deal_id |-> deal_id, seller |-> parsed.seller, buyer |-> parsed.buyer,
     details |-> parsed.details, amount |-> parsed.amount,
     escrow_till |-> parsed.escrow_till, seller_upi |-> parsed.seller_upi,
     escrow_fee |-> fee, status |-> "pending", created_at |-> now]

\* insert_one adds the _id to the document it is given.
with_oid(doc, oid) == [k \in DOMAIN doc \cup {"oid"} |-> IF k = "oid" THEN oid ELSE doc[k]]

\* An update that sets created_at with the field.
update_field_and_created_at(docs, deal_id, field, value) ==
    {IF d.deal_id = deal_id THEN [d EXCEPT ![field] = value, !.created_at = 0] ELSE d :
       d \in docs}

\* update_many in place of update_one.
update_field_many(docs, deal_id, field, value) ==
    {[d EXCEPT ![field] = value] : d \in docs}

\* DealService.update_field: update_one({"deal_id": deal_id}, {"$set": {field: value}}).
update_field(docs, deal_id, field, value) ==
    LET hit == {d \in docs : d.deal_id = deal_id}
    IN  IF hit = {} THEN docs
        ELSE LET d == CHOOSE x \in hit : TRUE
             IN  (docs \ {d}) \cup {[d EXCEPT ![field] = value]}

\* update_many in place of update_one.
update_status_many(docs, deal_id, status) ==
    {[d EXCEPT !.status = status] : d \in docs}

\* An update_one with upsert=True.
update_status_upsert(docs, deal_id, status) ==
    IF \E d \in docs : d.deal_id = deal_id
    THEN {IF d.deal_id = deal_id THEN [d EXCEPT !.status = status] ELSE d : d \in docs}
    ELSE docs \cup {[deal_id |-> deal_id, status |-> status]}

\* DealService.update_status: update_one({"deal_id": deal_id}, {"$set": {"status": status}}).
update_status(docs, deal_id, status) ==
    LET hit == {d \in docs : d.deal_id = deal_id}
    IN  IF hit = {} THEN docs
        ELSE LET d == CHOOSE x \in hit : TRUE
             IN  (docs \ {d}) \cup {[d EXCEPT !.status = status]}

\* A URL even where the collection holds none.
get_qr_url_or_default(docs) ==
    IF docs = {} THEN <<"h","t","t","p">> ELSE (CHOOSE d \in docs : TRUE).qr_image_url

\* SettingsService.get_qr_url: find_one({}), its qr_image_url where that is
\* not empty, or None.
get_qr_url(docs) ==
    IF docs = {} THEN None
    ELSE LET doc == CHOOSE d \in docs : TRUE
         IN  IF doc.qr_image_url # <<>> THEN doc.qr_image_url ELSE None

\* An update with $setOnInsert in place of $set.
set_qr_url_on_insert(docs, url) ==
    IF docs = {} THEN {[qr_image_url |-> url]} ELSE docs

\* SettingsService.set_qr_url: update_one({}, {"$set": {"qr_image_url": url}}, upsert=True).
set_qr_url(docs, url) ==
    IF docs = {} THEN {[qr_image_url |-> url]}
    ELSE LET doc == CHOOSE d \in docs : TRUE
         IN  (docs \ {doc}) \cup {[doc EXCEPT !.qr_image_url = url]}

\* DealService.get_deal: find_one({"deal_id": deal_id}), the document or None.
get_deal(docs, deal_id) ==
    IF \E d \in docs : d.deal_id = deal_id
    THEN CHOOSE d \in docs : d.deal_id = deal_id
    ELSE None

\* A delete_many({}) in place of delete_one.
delete_every_deal(docs, deal_id) == {}

\* DealService.delete_deal: delete_one({"deal_id": deal_id}).
delete_deal(docs, deal_id) ==
    LET hit == {d \in docs : d.deal_id = deal_id}
    IN  IF hit = {} THEN docs ELSE docs \ {CHOOSE x \in hit : TRUE}

\* A check that lets the sender in when the lookup fails.
_is_group_admin_fail_open(lookup) == lookup # "member"

\* _is_group_admin: get_chat_member answered with the sender's status, or
\* raised ("error").
_is_group_admin(lookup) ==
    IF lookup = "error" THEN FALSE ELSE lookup \in {"administrator", "creator"}

\* A test that lets every user in.
_is_admin_everyone(user) == TRUE

_is_admin(user) == user \in ADMIN_IDS

\* A status_filter of None, which list_deals treats as it treats "" (if status_filter:).
NoFilter == ""

\* The documents a query of list_deals matches: {} or {"status": status_filter}.
find(docs, status_filter) ==
    IF status_filter = NoFilter THEN docs ELSE {d \in docs : d.status = status_filter}

\* cursor.sort("deal_id", -1)
RECURSIVE sort_deal_id_desc(_)
sort_deal_id_desc(docs) ==
    IF docs = {} THEN <<>>
    ELSE LET top == CHOOSE d \in docs : \A e \in docs : e.deal_id <= d.deal_id
         IN  <<top>> \o sort_deal_id_desc(docs \ {top})

\* A cursor that skips nothing.
skip_limit_from_top(rows, skip, limit) ==
    SubSeq(rows, 1, IF Len(rows) < limit THEN Len(rows) ELSE limit)

\* cursor.skip(skip).limit(limit).to_list(length=limit)
skip_limit(rows, skip, limit) ==
    SubSeq(rows, skip + 1, IF Len(rows) < skip + limit THEN Len(rows) ELSE skip + limit)

(***************************************************************************)
(* State after BotApp.start() has built the services                       *)
(***************************************************************************)

IdleTask == [pc |-> "idle", parsed |-> None, fee |-> 0, doc |-> None, reply |-> "none"]

NoSession == [state |-> "none", data |-> EmptyDict]

IdleEdit == [pc |-> "idle"]

IdleQr == [pc |-> "idle", reply |-> "none"]

IdleList == [pc |-> "idle"]

\* No update has come in, no notice was shown and no handler has raised.
IdleDispatcher == [update |-> None, notices |-> {}, errors |-> {}]

\* The services and the dialogs, with no call in flight.
ServicesInit ==
    /\ next_oid = 1
    /\ clock = 1
    /\ lock_holder = 0
    /\ lock_waiters = <<>>
    /\ task = [t \in Tasks |-> IdleTask]
    /\ session = [u \in Users |-> NoSession]
    /\ edit = [u \in Users |-> IdleEdit]
    /\ edits = [u \in Users |-> 0]
    /\ keyboards = [deal_ids |-> {}, editfield |-> {}, setstatus |-> {}, deal_view |-> {},
                    delete_confirm |-> {}]
    /\ assigned = <<>>
    /\ settings = {}
    /\ qr_messages = <<>>
    /\ qr_call = IdleQr
    /\ dispatcher = IdleDispatcher

StoreInit ==
    /\ deals = {}
    /\ list_call = IdleList
    /\ ServicesInit

(***************************************************************************)
(* GroupHandlers.cmd_save and DealService.create_deal (593-629, 134-168)   *)
(***************************************************************************)

\* The handler up to the first wait of create_deal: the admin check, the
\* reply check, _parse_form, FeeCalculator.calculate and the lock.
cmd_save(t, lookup, has_reply, text) ==
    /\ task[t].pc = "idle"
    /\ IF ~_is_group_admin(lookup)
       THEN /\ task' = [task EXCEPT ![t].pc = "done", ![t].reply = "ignored"]
            /\ UNCHANGED <<lock_holder, lock_waiters,
                   dispatcher>>
       ELSE IF ~has_reply
       THEN /\ task' = [task EXCEPT ![t].pc = "done", ![t].reply = "reply_to_form"]
            /\ UNCHANGED <<lock_holder, lock_waiters,
                   dispatcher>>
       ELSE \E parsed \in {parse_form(text)} :
            IF parsed = None
            THEN /\ task' = [task EXCEPT ![t].pc = "done", ![t].reply = "could_not_parse"]
                 /\ UNCHANGED <<lock_holder, lock_waiters,
                   dispatcher>>
            ELSE IF lock_holder = 0 /\ lock_waiters = <<>>
            THEN /\ lock_holder' = t
                 /\ task' = [task EXCEPT ![t].pc = "find_one", ![t].parsed = parsed,
                                         ![t].fee = calculate(parsed.amount)]
                 /\ UNCHANGED lock_waiters
            ELSE /\ lock_waiters' = Append(lock_waiters, t)
                 /\ task' = [task EXCEPT ![t].pc = "acquire", ![t].parsed = parsed,
                                         ![t].fee = calculate(parsed.amount)]
                 /\ UNCHANGED lock_holder
    /\ UNCHANGED <<deals, next_oid, clock, session, edit, edits, keyboards, assigned,
                   fee_call, form_call,
                   settings, qr_messages, qr_call, list_call,
                   dispatcher>>

\* _next_deal_id: find_one answers, the lock is released (and handed to the
\* first waiter), and create_deal builds its document.
next_deal_id(t) ==
    /\ task[t].pc = "find_one"
    /\ lock_holder = t
    /\ LET deal_id == last_deal_id_plus_one(deals)
           woken   == IF lock_waiters = <<>> THEN 0 ELSE Head(lock_waiters)
       IN  /\ assigned' = Append(assigned, deal_id)
           /\ lock_holder' = woken
           /\ lock_waiters' = IF woken = 0 THEN <<>> ELSE Tail(lock_waiters)
           /\ task' = [x \in Tasks |->
                         IF x = t
                         THEN [task[t] EXCEPT !.pc = "insert_one",
                                 !.doc = new_deal(task[t].parsed, task[t].fee, deal_id, clock)]
                         ELSE IF x = woken THEN [task[x] EXCEPT !.pc = "find_one"]
                         ELSE task[x]]
    /\ clock' = clock + 1
    /\ UNCHANGED <<deals, next_oid, session, edit, edits, keyboards, fee_call, form_call,
                   settings, qr_messages, qr_call, list_call,
                   dispatcher>>

\* An exception that leaves the "async with" block with the lock held.
next_deal_id_raises_with_the_lock(t) ==
    /\ task[t].pc = "find_one"
    /\ lock_holder = t
    /\ task' = [task EXCEPT ![t].pc = "done", ![t].reply = "database_error"]
    /\ UNCHANGED <<deals, next_oid, clock, lock_holder, lock_waiters, session, edit,
                   edits, keyboards, assigned, fee_call, form_call, settings,
                   qr_messages, qr_call, list_call, dispatcher>>

\* _next_deal_id where find_one raises: "async with" releases the lock (and
\* hands it to the first waiter), create_deal raises and cmd_save reports a
\* database error.
next_deal_id_raises(t) ==
    /\ task[t].pc = "find_one"
    /\ lock_holder = t
    /\ LET woken == IF lock_waiters = <<>> THEN 0 ELSE Head(lock_waiters)
       IN  /\ lock_holder' = woken
           /\ lock_waiters' = IF woken = 0 THEN <<>> ELSE Tail(lock_waiters)
           /\ task' = [x \in Tasks |->
                         IF x = t
                         THEN [task[t] EXCEPT !.pc = "done", !.reply = "database_error"]
                         ELSE IF x = woken THEN [task[x] EXCEPT !.pc = "find_one"]
                         ELSE task[x]]
    /\ UNCHANGED <<deals, next_oid, clock, session, edit, edits, keyboards, assigned,
                   fee_call, form_call, settings, qr_messages, qr_call, list_call,
                   dispatcher>>

\* insert_one answers: the document is stored and cmd_save reports the id,
\* or DuplicateKeyError is raised and cmd_save reports a database error.
create_deal_insert(t) ==
    /\ task[t].pc = "insert_one"
    /\ LET doc == with_oid(task[t].doc, next_oid)
       IN  /\ deals' = insert_one(deals, doc)
           /\ IF doc \in deals'
              THEN /\ task' = [task EXCEPT ![t].pc = "done", ![t].doc = doc,
                                           ![t].reply = "saved"]
                   /\ keyboards' = [keyboards EXCEPT
                                      !.deal_ids = @ \cup {doc.deal_id}]
              ELSE /\ task' = [task EXCEPT ![t].pc = "done", ![t].reply = "database_error"]
                   /\ UNCHANGED keyboards
    /\ next_oid' = next_oid + 1
    /\ UNCHANGED <<clock, lock_holder, lock_waiters, session, edit, edits, assigned,
                   fee_call, form_call,
                   settings, qr_messages, qr_call, list_call,
                   dispatcher>>

(***************************************************************************)
(* The edit dialog and the delete confirmation (843-877, 1022-1103,        *)
(* 1148-1173).  A user's events are handled one at a time; the events of   *)
(* different users and the cmd_save tasks interleave at every storage      *)
(* call.                                                                    *)
(***************************************************************************)

\* cq.answer(notice, show_alert=True) or message.answer(notice): the notice
\* is shown to the user.
answer(u, notice) ==
    dispatcher' = [dispatcher EXCEPT !.notices = @ \cup {<<u, notice>>}]

\* CallbackHandlers._admin_guard, and the same test at the head of the
\* callbacks of AdminHandlers: who is no admin is told so.
_admin_guard(u) == IF _is_admin(u) THEN UNCHANGED dispatcher
                   ELSE answer(u, "Admins only.")

\* GroupHandlers.cmd_help: the command list, to a group admin.
cmd_help(lookup) ==
    /\ IF ~_is_group_admin(lookup) THEN UNCHANGED dispatcher
       ELSE answer("escrow_group", "Commands")
    /\ UNCHANGED <<deals, next_oid, clock, lock_holder, lock_waiters, task, session, edit,
                   edits, keyboards, assigned, fee_call, form_call,
                   settings, qr_messages, qr_call, list_call>>

\* GroupHandlers.cmd_pin: the replied-to message is pinned (Telegram then
\* posts its service message), or Telegram refuses (TelegramBadRequest).
cmd_pin(lookup, has_reply, bad_request) ==
    /\ IF ~_is_group_admin(lookup) THEN UNCHANGED dispatcher
       ELSE IF ~has_reply THEN answer("escrow_group", "Reply to a message to pin it.")
       ELSE IF bad_request THEN answer("escrow_group", "Failed to pin.")
       ELSE answer("escrow_group", "pinned a message")
    /\ UNCHANGED <<deals, next_oid, clock, lock_holder, lock_waiters, task, session, edit,
                   edits, keyboards, assigned, fee_call, form_call,
                   settings, qr_messages, qr_call, list_call>>

\* FSMContext.update_data(**kw)
update_data(data, kw) == kw @@ data

\* CallbackHandlers.cb_deal_edit, from a button of _deal_action_keyboard.
cb_deal_edit(u, deal_id, page, status_filter) ==
    /\ edit[u].pc = "idle"
    /\ _admin_guard(u)
    /\ IF ~_is_admin(u) THEN UNCHANGED <<session, keyboards, edits>>
       ELSE /\ deal_id \in keyboards.deal_ids
            /\ edits' = [edits EXCEPT ![u] = @ + 1]
            /\ session' = [session EXCEPT ![u] =
                 [state |-> "choose_field",
                  data  |-> update_data(session[u].data,
                               [deal_id |-> deal_id, page |-> page,
                                status_filter |-> status_filter])]]
            /\ keyboards' = [keyboards EXCEPT !.editfield = @ \cup {u}]
    /\ UNCHANGED <<deals, next_oid, clock, lock_holder, lock_waiters, task, edit,
                   assigned, fee_call, form_call,
                   settings, qr_messages, qr_call, list_call>>

\* The default, whatever the context holds.
get_deal_id_default(data) == 0

\* data.get("deal_id", 0): the deal of the Back button that the cancel of a
\* dialog renders, and the deal cb_setstatus updates.
get_deal_id(data) == IF "deal_id" \in DOMAIN data THEN data.deal_id ELSE 0

\* AdminHandlers.cb_editfield_choose, from a button cb_deal_edit rendered.
cb_editfield_choose(u, field) ==
    /\ edit[u].pc = "idle"
    /\ _admin_guard(u)
    /\ IF ~_is_admin(u) THEN UNCHANGED session
       ELSE /\ u \in keyboards.editfield
            /\ IF field = "cancel"
               THEN session' = [session EXCEPT ![u] = NoSession]
               ELSE session' = [session EXCEPT ![u] =
                      [state |-> "waiting_value",
                       data  |-> update_data(session[u].data, [edit_field |-> field])]]
    /\ UNCHANGED <<deals, next_oid, clock, lock_holder, lock_waiters, task, edit, edits,
                   keyboards, assigned, fee_call, form_call,
                   settings, qr_messages, qr_call, list_call>>

\* A handler that clears the state before it asks again.
amount_must_be_a_number_cleared(u) ==
    /\ session' = [session EXCEPT ![u] = NoSession]
    /\ UNCHANGED <<deals, edit, keyboards>>

\* except ValueError: "Amount must be a number. Try again:", and return.
amount_must_be_a_number(u) == UNCHANGED <<deals, session, edit, keyboards>>

\* AdminHandlers.fsm_edit_deal_value up to its last storage call: a text
\* message while the user's state is EditDeal.waiting_value.
fsm_edit_deal_value(u, text) ==
    /\ edit[u].pc = "idle"
    /\ session[u].state = "waiting_value"
    /\ \E data \in {session[u].data}, raw \in {strip(text)} :
           IF \/ ~_is_admin(u)
              \/ "deal_id" \notin DOMAIN data       \* KeyError
              \/ "edit_field" \notin DOMAIN data    \* KeyError
           THEN UNCHANGED <<deals, session, edit, keyboards>>
           ELSE IF data.edit_field = "amount"
           THEN IF float_raises(raw)
                THEN amount_must_be_a_number(u)
                ELSE /\ deals' = update_field(deals, data.deal_id, "escrow_fee",
                                              calculate(float_(raw)))
                     /\ edit' = [edit EXCEPT ![u] =
                          [pc |-> "update_field", deal_id |-> data.deal_id,
                           field |-> "amount", value |-> float_(raw)]]
                     /\ UNCHANGED <<session, keyboards>>
           ELSE /\ deals' = update_field(deals, data.deal_id, data.edit_field,
                      IF data.edit_field \in {"seller", "buyer"}
                      THEN lstrip_at(raw) ELSE raw)
                /\ session' = [session EXCEPT ![u] = NoSession]
                /\ keyboards' = [keyboards EXCEPT !.deal_ids = @ \cup {data.deal_id}]
                /\ UNCHANGED edit
    /\ UNCHANGED <<next_oid, clock, lock_holder, lock_waiters, task, edits, assigned,
                   fee_call, form_call,
                   settings, qr_messages, qr_call, list_call,
                   dispatcher>>

\* fsm_edit_deal_value after the fee is written: the amount is written,
\* the state is cleared and the deal is shown with its action keyboard.
fsm_edit_deal_value_amount(u) ==
    /\ edit[u].pc = "update_field"
    /\ deals' = update_field(deals, edit[u].deal_id, edit[u].field, edit[u].value)
    /\ session' = [session EXCEPT ![u] = NoSession]
    /\ edit' = [edit EXCEPT ![u] = IdleEdit]
    /\ keyboards' = [keyboards EXCEPT !.deal_ids = @ \cup {edit[u].deal_id}]
    /\ UNCHANGED <<next_oid, clock, lock_holder, lock_waiters, task, edits, assigned,
                   fee_call, form_call,
                   settings, qr_messages, qr_call, list_call,
                   dispatcher>>

\* A delete button that removes the deal at once.
cb_deal_delete_at_once(u, deal_id) ==
    /\ edit[u].pc = "idle"
    /\ _admin_guard(u)
    /\ IF ~_is_admin(u) THEN UNCHANGED deals
       ELSE /\ deal_id \in keyboards.deal_ids
            /\ deals' = delete_deal(deals, deal_id)
    /\ UNCHANGED <<next_oid, clock, lock_holder, lock_waiters, task, session, edit, edits,
                   keyboards, assigned, fee_call, form_call,
                   settings, qr_messages, qr_call, list_call>>

\* CallbackHandlers.cb_deal_delete, from a button of _deal_action_keyboard:
\* the prompt with the buttons "Yes, Delete" (deal_delete_confirm) and
\* "No, Go Back" (deal_view).
cb_deal_delete(u, deal_id) ==
    /\ edit[u].pc = "idle"
    /\ _admin_guard(u)
    /\ IF ~_is_admin(u) THEN UNCHANGED keyboards
       ELSE /\ deal_id \in keyboards.deal_ids
            /\ keyboards' = [keyboards EXCEPT !.delete_confirm = @ \cup {deal_id},
                                              !.deal_view = @ \cup {deal_id}]
    /\ UNCHANGED <<deals, next_oid, clock, lock_holder, lock_waiters, task, session, edit,
                   edits, assigned, fee_call, form_call,
                   settings, qr_messages, qr_call, list_call>>

\* AdminHandlers.cb_deal_delete_confirm, from the button cb_deal_delete rendered.
cb_deal_delete_confirm(u, deal_id) ==
    /\ edit[u].pc = "idle"
    /\ _admin_guard(u)
    /\ IF ~_is_admin(u) THEN UNCHANGED <<deals, session>>
       ELSE /\ deal_id \in keyboards.delete_confirm
            /\ deals' = delete_deal(deals, deal_id)
            /\ session' = [session EXCEPT ![u] = NoSession]
    /\ UNCHANGED <<next_oid, clock, lock_holder, lock_waiters, task, edit, edits,
                   keyboards, assigned, fee_call, form_call,
                   settings, qr_messages, qr_call, list_call>>

(***************************************************************************)
(* The change-status dialog, the deal list and the deal view (798-841,     *)
(* 879-906, 1105-1146)                                                     *)
(***************************************************************************)

\* CallbackHandlers.cb_deal_changestatus, from a button of _deal_action_keyboard.
cb_deal_changestatus(u, deal_id, page, status_filter) ==
    /\ edit[u].pc = "idle"
    /\ _admin_guard(u)
    /\ IF ~_is_admin(u) THEN UNCHANGED <<session, keyboards, edits>>
       ELSE /\ deal_id \in keyboards.deal_ids
            /\ edits' = [edits EXCEPT ![u] = @ + 1]
            /\ session' = [session EXCEPT ![u] =
                 [state |-> "waiting_status",
                  data  |-> update_data(session[u].data,
                               [deal_id |-> deal_id, page |-> page,
                                status_filter |-> status_filter])]]
            /\ keyboards' = [keyboards EXCEPT !.setstatus = @ \cup {u}]
    /\ UNCHANGED <<deals, next_oid, clock, lock_holder, lock_waiters, task, edit,
                   assigned, fee_call, form_call,
                   settings, qr_messages, qr_call, list_call>>

\* AdminHandlers.cb_setstatus, from a button cb_deal_changestatus rendered:
\* a status or "cancel".
cb_setstatus(u, new_status) ==
    /\ edit[u].pc = "idle"
    /\ _admin_guard(u)
    /\ IF ~_is_admin(u) THEN UNCHANGED <<deals, session, keyboards>>
       ELSE /\ u \in keyboards.setstatus
            /\ session' = [session EXCEPT ![u] = NoSession]
            /\ IF new_status = "cancel"
               THEN UNCHANGED <<deals, keyboards>>
               ELSE /\ deals' = update_status(deals, get_deal_id(session[u].data),
                                              new_status)
                    /\ keyboards' = [keyboards EXCEPT
                          !.deal_ids = @ \cup {get_deal_id(session[u].data)}]
    /\ UNCHANGED <<next_oid, clock, lock_holder, lock_waiters, task, edit, edits,
                   assigned, fee_call, form_call,
                   settings, qr_messages, qr_call, list_call>>

\* CallbackHandlers.cb_deal_page up to the answer of count_documents;
\* status_filter is "all" or a status.
cb_deal_page(u, page, status_filter) ==
    /\ edit[u].pc = "idle"
    /\ list_call.pc = "idle"
    /\ _admin_guard(u)
    /\ IF ~_is_admin(u) THEN UNCHANGED list_call
       ELSE \E filter_arg \in {IF status_filter = "all" THEN NoFilter ELSE status_filter} :
              list_call' = [pc |-> "find", status_filter |-> filter_arg,
                            skip |-> page * 10, limit |-> 10,
                            total |-> Cardinality(find(deals, filter_arg))]
    /\ UNCHANGED <<deals, next_oid, clock, lock_holder, lock_waiters, task, session, edit,
                   edits, keyboards, assigned, fee_call, form_call,
                   settings, qr_messages, qr_call>>

\* The cursor answers and cb_deal_page renders _deal_list_keyboard: a
\* deal_view button for each deal of the page.
cb_deal_page_keyboard ==
    /\ list_call.pc = "find"
    /\ \E rows \in {skip_limit(sort_deal_id_desc(find(deals, list_call.status_filter)),
                                list_call.skip, list_call.limit)} :
          keyboards' = [keyboards EXCEPT
             !.deal_view = @ \cup {rows[i].deal_id : i \in 1..Len(rows)}]
    /\ list_call' = IdleList
    /\ UNCHANGED <<deals, next_oid, clock, lock_holder, lock_waiters, task, session, edit,
                   edits, assigned, fee_call, form_call,
                   settings, qr_messages, qr_call,
                   dispatcher>>

\* CallbackHandlers.cb_deal_view, from a deal_view button: the deal is shown
\* with _deal_action_keyboard, or reported as not found.
cb_deal_view(u, deal_id) ==
    /\ edit[u].pc = "idle"
    /\ IF ~_is_admin(u) THEN _admin_guard(u) /\ UNCHANGED keyboards
       ELSE /\ deal_id \in keyboards.deal_view
            /\ IF get_deal(deals, deal_id) = None
               THEN answer(u, "Deal not found.") /\ UNCHANGED keyboards
               ELSE /\ keyboards' = [keyboards EXCEPT !.deal_ids = @ \cup {deal_id}]
                    /\ UNCHANGED dispatcher
    /\ UNCHANGED <<deals, next_oid, clock, lock_holder, lock_waiters, task, session, edit,
                   edits, assigned, fee_call, form_call,
                   settings, qr_messages, qr_call, list_call>>

(***************************************************************************)
(* GroupHandlers.cmd_qr and the buttons of its message (631-703, 738-780)  *)
(***************************************************************************)

\* re.match(r"^qr([\d.]+)", t, re.IGNORECASE) finds a match.
qr_matches(t) ==
    Len(t) >= 3 /\ Lower(t[1]) = "q" /\ Lower(t[2]) = "r" /\ IsNumChar(t[3])

\* group(1) of that match.
qr_group(t) == SubSeq(t, 3, RunEnd(t, 3, "[\\d.]") - 1)

\* deal_id: Optional[int] = None
NoDealId == 0 - 1

\* re.search(r"[:#](\d+)$", t): int(group(1)), or None.
inline_deal_id(t) ==
    LET marks == {i \in 1..(Len(t) - 1) :
                    /\ t[i] \in {":", "#"}
                    /\ \A k \in (i + 1)..Len(t) : t[k] \in Digits}
    IN  IF marks = {} THEN NoDealId
        ELSE DigitsValue(SubSeq(t, (CHOOSE i \in marks : TRUE) + 1, Len(t)))

\* A total of the payment amount alone.
round_sum_without_fee(payment_amount, escrow_fee) == payment_amount

\* round(payment_amount + deal["escrow_fee"], 2): with two fraction digits in
\* each operand the binary sum lies within 0.005 of the decimal sum.
round_sum(payment_amount, escrow_fee) == payment_amount + escrow_fee

\* cmd_qr up to the answer of get_deal.  replied_deal_id is the id the
\* pattern "Deal\s*ID[:\s#]*(\d+)" finds in the message replied to, or None.
cmd_qr(lookup, text, replied_deal_id) ==
    /\ qr_call.pc = "idle"
    /\ \E t \in {strip(text)} :
          IF ~_is_group_admin(lookup) \/ ~qr_matches(t)
          THEN qr_call' = [pc |-> "idle", reply |-> "ignored"]
          ELSE IF float_raises(qr_group(t))
          THEN qr_call' = [pc |-> "idle", reply |-> "invalid_amount"]
          ELSE \E deal_id \in {IF replied_deal_id # NoDealId THEN replied_deal_id
                                ELSE inline_deal_id(t)} :
               IF deal_id = NoDealId
               THEN qr_call' = [pc |-> "idle", reply |-> "reply_to_save"]
               ELSE \E deal \in {get_deal(deals, deal_id)} :
                    IF deal = None
                    THEN qr_call' = [pc |-> "idle", reply |-> "not_found"]
                    ELSE qr_call' =
                           [pc |-> "get_qr_url", reply |-> "none", deal_id |-> deal_id,
                            payment_amount |-> float_(qr_group(t)),
                            escrow_fee |-> deal.escrow_fee,
                            total |-> round_sum(float_(qr_group(t)), deal.escrow_fee)]
    /\ UNCHANGED <<deals, next_oid, clock, lock_holder, lock_waiters, task, session, edit,
                   edits, keyboards, assigned, fee_call, form_call, settings,
                   qr_messages, list_call,
                   dispatcher>>

\* get_qr_url answers and the photo is sent with its caption and its two
\* buttons, or the lack of a QR image is reported.
cmd_qr_get_qr_url ==
    /\ qr_call.pc = "get_qr_url"
    /\ IF get_qr_url(settings) = None
       THEN /\ qr_call' = [pc |-> "idle", reply |-> "no_qr_image"]
            /\ UNCHANGED qr_messages
       ELSE /\ qr_call' = [pc |-> "idle", reply |-> "photo"]
            /\ qr_messages' = Append(qr_messages,
                  [deal_id |-> qr_call.deal_id, payment_amount |-> qr_call.payment_amount,
                   escrow_fee |-> qr_call.escrow_fee, total |-> qr_call.total,
                   photo |-> get_qr_url(settings), buttons |-> TRUE])
    /\ UNCHANGED <<deals, next_oid, clock, lock_holder, lock_waiters, task, session, edit,
                   edits, keyboards, assigned, fee_call, form_call, settings, list_call,
                   dispatcher>>

\* CallbackHandlers.cb_pay_confirm and cb_pay_cancel up to the answer of
\* update_status, from a button of the QR message m.
cb_pay(u, m, status) ==
    /\ edit[u].pc = "idle"
    /\ m \in 1..Len(qr_messages)
    /\ qr_messages[m].buttons
    /\ _admin_guard(u)
    /\ IF ~_is_admin(u) THEN UNCHANGED <<deals, edit>>
       ELSE /\ deals' = update_status(deals, qr_messages[m].deal_id, status)
            /\ edit' = [edit EXCEPT ![u] =
                        [pc |-> "edit_caption", message |-> m, status |-> status]]
    /\ UNCHANGED <<next_oid, clock, lock_holder, lock_waiters, task, session, edits,
                   keyboards, assigned, fee_call, form_call, settings, qr_messages,
                   qr_call, list_call>>

cb_pay_confirm(u, m) == cb_pay(u, m, "paid")

cb_pay_cancel(u, m) == cb_pay(u, m, "cancelled")

\* The end of cb_pay_confirm and cb_pay_cancel: edit_caption(reply_markup=None).
cb_pay_edit_caption(u) ==
    /\ edit[u].pc = "edit_caption"
    /\ qr_messages' = [qr_messages EXCEPT ![edit[u].message].buttons = FALSE]
    /\ edit' = [edit EXCEPT ![u] = IdleEdit]
    /\ UNCHANGED <<deals, next_oid, clock, lock_holder, lock_waiters, task, session, edits,
                   keyboards, assigned, fee_call, form_call, settings, qr_call,
                   list_call,
                   dispatcher>>

(***************************************************************************)
(* The change-QR dialog (939-955, 1006-1020)                               *)
(***************************************************************************)

\* CallbackHandlers.cb_admin_change_qr, from the button of the admin home.
cb_admin_change_qr(u) ==
    /\ edit[u].pc = "idle"
    /\ _admin_guard(u)
    /\ IF ~_is_admin(u) THEN UNCHANGED session
       ELSE session' = [session EXCEPT ![u].state = "waiting_url"]
    /\ UNCHANGED <<deals, next_oid, clock, lock_holder, lock_waiters, task, edit, edits,
                   keyboards, assigned, fee_call, form_call, settings, qr_messages,
                   qr_call, list_call>>

\* AdminHandlers.fsm_change_qr_url: a text message while the user's state
\* is ChangeQR.waiting_url.
fsm_change_qr_url(u, text) ==
    /\ edit[u].pc = "idle"
    /\ session[u].state = "waiting_url"
    /\ \E url \in {strip(text)} :
          IF ~_is_admin(u) \/ ~startswith(url, <<"h","t","t","p">>)
          THEN UNCHANGED <<session, settings>>
          ELSE /\ settings' = set_qr_url(settings, url)
               /\ session' = [session EXCEPT ![u] = NoSession]
    /\ UNCHANGED <<deals, next_oid, clock, lock_holder, lock_waiters, task, edit, edits,
                   keyboards, assigned, fee_call, form_call, qr_messages, qr_call,
                   list_call,
                   dispatcher>>

\* fsm_change_qr_url up to the query phase of update_one(..., upsert=True)
\* on a collection that holds no document: nothing matches, so the server
\* goes on to insert.  (On a document that matches, the update is applied
\* to it at once: fsm_change_qr_url.)
fsm_change_qr_url_query(u, text) ==
    /\ edit[u].pc = "idle"
    /\ session[u].state = "waiting_url"
    /\ _is_admin(u)
    /\ startswith(strip(text), <<"h","t","t","p">>)
    /\ settings = {}
    /\ edit' = [edit EXCEPT ![u] = [pc |-> "upsert", url |-> strip(text)]]
    /\ UNCHANGED <<deals, next_oid, clock, lock_holder, lock_waiters, task, session,
                   edits, keyboards, assigned, fee_call, form_call, settings,
                   qr_messages, qr_call, list_call, dispatcher>>

\* The insert phase of the upsert: the collection has no unique index, so
\* the document is inserted whatever the collection holds by now; the
\* state is cleared.
fsm_change_qr_url_upsert(u) ==
    /\ edit[u].pc = "upsert"
    /\ settings' = settings \cup {[qr_image_url |-> edit[u].url]}
    /\ session' = [session EXCEPT ![u] = NoSession]
    /\ edit' = [edit EXCEPT ![u] = IdleEdit]
    /\ UNCHANGED <<deals, next_oid, clock, lock_holder, lock_waiters, task,
                   edits, keyboards, assigned, fee_call, form_call,
                   qr_messages, qr_call, list_call, dispatcher>>

(***************************************************************************)
(* The admin home (782-796, 994-1004)                                      *)
(***************************************************************************)

\* CallbackHandlers.cb_admin_home, from a Home button: the state is cleared
\* and the dashboard is shown.
cb_admin_home(u) ==
    /\ edit[u].pc = "idle"
    /\ _admin_guard(u)
    /\ IF ~_is_admin(u) THEN UNCHANGED session
       ELSE session' = [session EXCEPT ![u] = NoSession]
    /\ UNCHANGED <<deals, next_oid, clock, lock_holder, lock_waiters, task, edit, edits,
                   keyboards, assigned, fee_call, form_call, settings, qr_messages,
                   qr_call, list_call>>

\* AdminHandlers.cmd_start: /start.
cmd_start(u) ==
    /\ edit[u].pc = "idle"
    /\ IF ~_is_admin(u) THEN answer(u, "Access Denied") /\ UNCHANGED session
       ELSE /\ session' = [session EXCEPT ![u] = NoSession]
            /\ UNCHANGED dispatcher
    /\ UNCHANGED <<deals, next_oid, clock, lock_holder, lock_waiters, task, edit, edits,
                   keyboards, assigned, fee_call, form_call, settings, qr_messages,
                   qr_call, list_call>>

(***************************************************************************)
(* GroupScopeMiddleware (1185-1214)                                        *)
(***************************************************************************)

\* A middleware that looks at the chat of a message only.
GroupScopeMiddleware_of_messages(event) ==
    IF /\ event.message # None
       /\ event.message.chat.type \in {"group", "supergroup"}
       /\ event.message.chat.id \notin {"ESCROW_GROUP_ID", "MAIN_GROUP_ID"}
    THEN "dropped" ELSE "handler"

\* GroupScopeMiddleware.__call__ on an Update: "dropped" when it returns
\* without calling the handler, "handler" when it calls it.
GroupScopeMiddleware(event) ==
    LET chat == IF event.message # None THEN event.message.chat
                ELSE IF event.callback_query # None
                        /\ event.callback_query.message # None
                     THEN event.callback_query.message.chat
                     ELSE None
    IN  IF chat # None /\ chat.type \in {"group", "supergroup"}
        THEN IF chat.id \notin {"ESCROW_GROUP_ID", "MAIN_GROUP_ID"}
             THEN "dropped" ELSE "handler"
        ELSE "handler"

\* Dispatcher.feed_update: the update goes through the middleware.
feed_update(event) ==
    /\ dispatcher' = [dispatcher EXCEPT
          !.update = [event |-> event, outcome |-> GroupScopeMiddleware(event)]]
    /\ UNCHANGED <<deals, next_oid, clock, lock_holder, lock_waiters, task, session, edit,
                   edits, keyboards, assigned, fee_call, form_call,
                   settings, qr_messages, qr_call, list_call>>

(***************************************************************************)
(* Storage failures outside a try block (671, 1014)                        *)
(***************************************************************************)

\* GroupHandlers.cmd_qr where get_deal raises (the database cannot be
\* reached): no except clause encloses the call, the exception leaves the
\* handler and nothing is replied.
cmd_qr_raises(lookup, text, replied_deal_id) ==
    /\ qr_call.pc = "idle"
    /\ \E t \in {strip(text)} :
          /\ _is_group_admin(lookup)
          /\ qr_matches(t)
          /\ ~float_raises(qr_group(t))
          /\ replied_deal_id # NoDealId \/ inline_deal_id(t) # NoDealId
    /\ qr_call' = IdleQr
    /\ dispatcher' = [dispatcher EXCEPT !.errors = @ \cup {"cmd_qr"}]
    /\ UNCHANGED <<deals, next_oid, clock, lock_holder, lock_waiters, task, session, edit,
                   edits, keyboards, assigned, fee_call, form_call, settings,
                   qr_messages, list_call>>

\* AdminHandlers.fsm_change_qr_url where set_qr_url raises: the exception
\* leaves the handler, the state is not cleared and nothing is answered.
fsm_change_qr_url_raises(u, text) ==
    /\ edit[u].pc = "idle"
    /\ session[u].state = "waiting_url"
    /\ _is_admin(u)
    /\ startswith(strip(text), <<"h","t","t","p">>)
    /\ dispatcher' = [dispatcher EXCEPT !.errors = @ \cup {"fsm_change_qr_url"}]
    /\ UNCHANGED <<deals, next_oid, clock, lock_holder, lock_waiters, task, session, edit,
                   edits, keyboards, assigned, fee_call, form_call, settings,
                   qr_messages, qr_call, list_call>>

(***************************************************************************)
(* DealService.list_deals (193-211)                                        *)
(***************************************************************************)

\* list_deals up to the answer of count_documents.
list_deals(status_filter, skip, limit) ==
    /\ list_call.pc = "idle"
    /\ list_call' = [pc |-> "find", status_filter |-> status_filter, skip |-> skip,
                     limit |-> limit, total |-> Cardinality(find(deals, status_filter))]
    /\ UNCHANGED <<deals, next_oid, clock, lock_holder, lock_waiters, task, session, edit,
                   edits, keyboards, assigned, fee_call, form_call, settings,
                   qr_messages, qr_call,
                   dispatcher>>

\* The cursor answers and list_deals returns (deals, total).
list_deals_return ==
    /\ list_call.pc = "find"
    /\ list_call' = [pc |-> "returned", status_filter |-> list_call.status_filter,
                     skip |-> list_call.skip, limit |-> list_call.limit,
                     total |-> list_call.total,
                     deals |-> skip_limit(
                                  sort_deal_id_desc(find(deals, list_call.status_filter)),
                                  list_call.skip, list_call.limit)]
    /\ UNCHANGED <<deals, next_oid, clock, lock_holder, lock_waiters, task, session, edit,
                   edits, keyboards, assigned, fee_call, form_call, settings,
                   qr_messages, qr_call,
                   dispatcher>>

(***************************************************************************)
(* Inputs of the two pure functions                                        *)
(***************************************************************************)

\* A form is up to seven lines in the order of the template
\* (config.FORM_TEMPLATE): each label spelt in some case with a value, with
\* no value, or left out, and a last line without a line end.
SellerLines ==
    { <<"S","e","l","l","e","r",":"," ","@","a","l","\n">>,
      <<"s","e","l","l","e","r",":","@","@","a","l","\n">>,
      <<"S","e","l","l","e","r",":"," ","@","\n">>,
      <<>> }

BuyerLines ==
    { <<"B","u","y","e","r",":"," ","b","o","\n">>,
      <<"B","U","Y","E","R",":"," ","@","b","o","\n">>,
      <<>> }

DetailsLines ==
    { <<"D","e","t","a","i","l","s",":"," ","a"," ","b","\n">>,
      <<"d","e","t","a","i","l","s",":","\n">>,
      <<>> }

AmountLines ==
    { <<"A","m","o","u","n","t",":"," ","5","0","0","\n">>,
      <<"a","m","o","u","n","t",":"," ","1",".","2",".","3","\n">>,
      <<"A","m","o","u","n","t",":"," ","x","\n">>,
      <<"A","m","o","u","n","t",":"," ","1","8","9",".","9","9","\n">>,
      <<>> }

TillLines ==
    { <<"E","s","c","r","o","w"," ","T","i","l","l",":"," ","f","r","i","\n">>,
      <<"e","s","c","r","o","w"," ","t","i","l","l",":"," ","1"," ","m","a","y","\n">>,
      <<>> }

UpiLines ==
    { <<"S","e","l","l","e","r"," ","U","P","I",":"," ","a","@","u","\n">>,
      <<"s","e","l","l","e","r"," ","u","p","i",":"," ","x","\n">>,
      <<"S","e","l","l","e","r"," ","U","P","I",":","\n">>,
      <<>> }

LastLines ==
    { <<"D","e","t","a","i","l","s",":"," ">>,
      <<"S","e","l","l","e","r"," ","U","P","I",":">>,
      <<>> }

FormTexts ==
    { s \o b \o d \o a \o t \o u \o z :
        s \in SellerLines, b \in BuyerLines, d \in DetailsLines, a \in AmountLines,
        t \in TillLines, u \in UpiLines, z \in LastLines }

IdleFee == [pc |-> "idle", amount |-> 0, fee |-> 0]

IdleForm == [pc |-> "idle", text |-> <<>>, result |-> None]

(***************************************************************************)
(* FeeSpec: one call of FeeCalculator.calculate on an amount of FeeAmounts *)
(***************************************************************************)

FeeInit ==
    /\ StoreInit
    /\ fee_call \in {[pc |-> "called", amount |-> a, fee |-> 0] : a \in FeeAmounts}
    /\ form_call = IdleForm

FeeReturn ==
    /\ fee_call.pc = "called"
    /\ fee_call' = [fee_call EXCEPT !.pc = "returned", !.fee = calculate(fee_call.amount)]
    /\ UNCHANGED <<store_vars, form_call>>

FeeNext == FeeReturn

FeeSpec == FeeInit /\ [][FeeNext]_vars

(***************************************************************************)
(* ParseSpec: one call of _parse_form on a text of FormTexts               *)
(***************************************************************************)

ParseInit ==
    /\ StoreInit
    /\ form_call \in {[pc |-> "called", text |-> t, result |-> None] : t \in FormTexts}
    /\ fee_call = IdleFee

ParseReturn ==
    /\ form_call.pc = "called"
    /\ form_call' = [form_call EXCEPT !.pc = "returned", !.result = parse_form(form_call.text)]
    /\ UNCHANGED <<store_vars, fee_call>>

ParseNext == ParseReturn

ParseSpec == ParseInit /\ [][ParseNext]_vars

(***************************************************************************)
(* ListSpec: calls of list_deals on a store of up to MaxListed deals, each *)
(* in one of the three statuses, with no other storage call under way.     *)
(***************************************************************************)

MaxListed == 3

MaxLimit == 2

Statuses == {"pending", "paid", "cancelled"}

\* The deal saved as number i, after its status was set.
ListedDeal(i, status) ==
    [with_oid(new_deal(parse_form(FilledForm), calculate(50000), i, i), i)
        EXCEPT !.status = status]

\* The stores: some of the deals 1..MaxListed, the others deleted.
ListedStores ==
    {docs \in SUBSET {ListedDeal(i, st) : i \in 1..MaxListed, st \in Statuses} :
        \A d, e \in docs : d.deal_id = e.deal_id => d = e}

ListInit ==
    /\ deals \in ListedStores
    /\ list_call = IdleList
    /\ ServicesInit
    /\ fee_call = IdleFee
    /\ form_call = IdleForm

ListNext ==
    \/ \E sf \in Statuses \cup {NoFilter}, skip \in 0..MaxListed, limit \in 1..MaxLimit :
          list_deals(sf, skip, limit)
    \/ list_deals_return

ListSpec == ListInit /\ [][ListNext]_vars

(***************************************************************************)
(* Spec: the save tasks and the delete confirmations.                      *)
(* CreateSpec: the save tasks alone, on the empty store.                   *)
(* EditSpec: two deals are saved and the admins enter the edit dialog      *)
(* MaxEdits times in all.                                                  *)
(* RaceSpec: as EditSpec, with each admin entering the edit dialog         *)
(* MaxEdits times, so that two dialogs are open at once.                   *)
(***************************************************************************)

Init ==
    /\ StoreInit
    /\ fee_call = IdleFee
    /\ form_call = IdleForm

SaveNext ==
    \/ \E t \in Tasks, lookup \in ChatMemberLookups, has_reply \in BOOLEAN,
          text \in SavedTexts : cmd_save(t, lookup, has_reply, text)
    \/ \E t \in Tasks : next_deal_id(t)
    \/ \E t \in Tasks : create_deal_insert(t)

Next ==
    \/ SaveNext
    \/ \E u \in Users, d \in 1..NumTasks : cb_deal_delete(u, d)
    \/ \E u \in Users, d \in 1..NumTasks : cb_deal_delete_confirm(u, d)

Spec == Init /\ [][Next]_vars

CreateSpec == Init /\ [][SaveNext]_vars

\* The save messages of the edit scenarios: two, by a group admin, in
\* reply to the same filled form.
EditTasks == {1, 2}

EditSaved == {FilledForm}

EditSaveNext ==
    \/ \E t \in EditTasks, text \in EditSaved : cmd_save(t, "administrator", TRUE, text)
    \/ \E t \in EditTasks : next_deal_id(t)
    \/ \E t \in EditTasks : create_deal_insert(t)

EditDialogNext ==
    \/ \E u \in ADMIN_IDS, f \in EditFields \cup {"cancel"} : cb_editfield_choose(u, f)
    \/ \E u \in Users, text \in EditTexts : fsm_edit_deal_value(u, text)
    \/ \E u \in ADMIN_IDS : fsm_edit_deal_value_amount(u)

EditsInAll == edits["8313065945"] + edits["6670166083"]

EditNext ==
    \/ EditSaveNext
    \/ EditDialogNext
    \/ \E u \in ADMIN_IDS, d \in EditTasks :
          EditsInAll < MaxEdits /\ cb_deal_edit(u, d, 0, "all")

EditSpec == Init /\ [][EditNext]_vars

RaceNext ==
    \/ EditSaveNext
    \/ EditDialogNext
    \/ \E u \in ADMIN_IDS, d \in EditTasks :
          edits[u] < MaxEdits /\ cb_deal_edit(u, d, 0, "all")

RaceSpec == Init /\ [][RaceNext]_vars

(***************************************************************************)
(* QrSpec: two deals are saved, an admin sets the QR image and edits the   *)
(* amount of deal 1 once, up to MaxQr QR messages are issued and           *)
(* their buttons pressed.                                                  *)
(***************************************************************************)

MaxQr == 1

\* The qr commands: a payment for deal 1 and one for deal 2, a command
\* without a deal id, and one whose amount is no number.
QrTexts ==
    { <<"q","r","5","0","0",":","1">>,
      <<"Q","R","4","5",".","5","#","2">>,
      <<"q","r","5","0","0">>,
      <<"q","r","1",".","2",".","3",":","1">> }

\* What an admin sends as the URL of the QR image.
UrlTexts ==
    { <<"h","t","t","p","s",":","/","/","q",".","r","/","a">>,
      <<" ","h","t","t","p",":","/","/","q",".","r","/","b"," ">>,
      <<"h","t","t","p","x">>,
      <<"q",".","r","/","c">> }

\* The two deals are saved from FilledForm and LowerCaseForm: their fees are
\* 20.00 and 10.00.
QrNext ==
    \/ cmd_save(1, "administrator", TRUE, FilledForm)
    \/ cmd_save(2, "administrator", TRUE, LowerCaseForm)
    \/ \E t \in EditTasks : next_deal_id(t)
    \/ \E t \in EditTasks : create_deal_insert(t)
    \/ cb_admin_change_qr("8313065945")
    \/ fsm_change_qr_url("8313065945", <<"h","t","t","p","s",":","/","/","q",".","r","/","a">>)
    \/ \E lookup \in {"administrator", "member"}, text \in QrTexts,
          replied \in {NoDealId, 2} :
          Len(qr_messages) < MaxQr /\ cmd_qr(lookup, text, replied)
    \/ cmd_qr_get_qr_url
    \/ \E u \in ADMIN_IDS, m \in 1..MaxQr : cb_pay_confirm(u, m)
    \/ \E u \in ADMIN_IDS, m \in 1..MaxQr : cb_pay_cancel(u, m)
    \/ \E u \in ADMIN_IDS : cb_pay_edit_caption(u)
    \/ EditsInAll = 0 /\ cb_deal_edit("8313065945", 1, 0, "all")
    \/ cb_editfield_choose("8313065945", "amount")
    \/ \E text \in {<<" ","7","0","0"," ">>, <<"@","c","y">>} :
          fsm_edit_deal_value("8313065945", text)
    \/ fsm_edit_deal_value_amount("8313065945")

QrSpec == Init /\ [][QrNext]_vars

(***************************************************************************)
(* UrlSpec: two deals are saved, the users open the change-QR dialog and   *)
(* send texts, and up to MaxQr QR messages are issued.                     *)
(***************************************************************************)

UrlNext ==
    \/ EditSaveNext
    \/ \E u \in Users : cb_admin_change_qr(u)
    \/ \E u \in Users, text \in UrlTexts : fsm_change_qr_url(u, text)
    \/ \E text \in QrTexts :
          Len(qr_messages) < MaxQr /\ cmd_qr("administrator", text, NoDealId)
    \/ cmd_qr_get_qr_url
    \/ \E text \in QrTexts : cmd_qr_raises("administrator", text, NoDealId)
    \/ \E u \in Users, text \in UrlTexts : fsm_change_qr_url_raises(u, text)

UrlSpec == Init /\ [][UrlNext]_vars

(***************************************************************************)
(* StatusSpec: two deals are saved one after the other; an admin lists and *)
(* views them, sets the QR image once, enters the edit dialog and the      *)
(* change-status dialog (MaxEdits entries in all); one QR message is       *)
(* issued and its buttons pressed; the admin goes to the home and sends    *)
(* /start.                                                                 *)
(***************************************************************************)

StatusNext ==
    \/ cmd_save(1, "administrator", TRUE, FilledForm)
    \/ task[1].pc = "done" /\ cmd_save(2, "administrator", TRUE, LowerCaseForm)
    \/ \E t \in EditTasks : next_deal_id(t)
    \/ \E t \in EditTasks : create_deal_insert(t)
    \/ \E sf \in {"all", "paid"} : cb_deal_page("8313065945", 0, sf)
    \/ cb_deal_page_keyboard
    \/ \E d \in EditTasks : cb_deal_view("8313065945", d)
    \/ EditsInAll < MaxEdits /\ cb_deal_edit("8313065945", 1, 0, "all")
    \/ cb_editfield_choose("8313065945", "seller")
    \/ fsm_edit_deal_value("8313065945", <<"@","c","y">>)
    \/ \E d \in EditTasks :
          EditsInAll < MaxEdits /\ cb_deal_changestatus("8313065945", d, 0, "all")
    \/ \E u \in Users, s \in Statuses \cup {"cancel"} : cb_setstatus(u, s)
    \/ settings = {} /\ cb_admin_change_qr("8313065945")
    \/ fsm_change_qr_url("8313065945", <<"h","t","t","p","s",":","/","/","q",".","r","/","a">>)
    \/ qr_messages = <<>> /\ cmd_qr("administrator", <<"q","r","5","0","0",":","1">>, NoDealId)
    \/ cmd_qr_get_qr_url
    \/ cb_pay_confirm("8313065945", 1)
    \/ cb_pay_cancel("8313065945", 1)
    \/ cb_pay_edit_caption("8313065945")
    \/ cb_admin_home("8313065945")
    \/ cmd_start("8313065945")

StatusSpec == Init /\ [][StatusNext]_vars

(***************************************************************************)
(* GuardSpec: two deals are saved one after the other; an admin and a user *)
(* who is no admin press every button of the dashboard, of the dialogs and *)
(* of the QR message, send /start and send the dialogs' text messages.     *)
(***************************************************************************)

DashUsers == {"8313065945", "1001"}

GuardNext ==
    \/ cmd_save(1, "administrator", TRUE, FilledForm)
    \/ task[1].pc = "done" /\ cmd_save(2, "administrator", TRUE, LowerCaseForm)
    \/ \E t \in EditTasks : next_deal_id(t)
    \/ \E t \in EditTasks : create_deal_insert(t)
    \/ \E u \in DashUsers : cb_admin_home(u)
    \/ \E u \in DashUsers : cmd_start(u)
    \/ \E u \in DashUsers : cb_deal_page(u, 0, "all")
    \/ cb_deal_page_keyboard
    \/ \E u \in DashUsers, d \in EditTasks : cb_deal_view(u, d)
    \/ \E u \in DashUsers : EditsInAll < MaxEdits /\ cb_deal_edit(u, 1, 0, "all")
    \/ \E u \in DashUsers, f \in {"amount", "cancel"} : cb_editfield_choose(u, f)
    \/ \E u \in DashUsers : fsm_edit_deal_value(u, <<" ","7","0","0"," ">>)
    \/ \E u \in DashUsers : fsm_edit_deal_value_amount(u)
    \/ \E u \in DashUsers :
          EditsInAll < MaxEdits /\ cb_deal_changestatus(u, 2, 0, "all")
    \/ \E u \in DashUsers, s \in {"paid", "cancel"} : cb_setstatus(u, s)
    \/ \E u \in DashUsers : cb_deal_delete(u, 2)
    \/ \E u \in DashUsers : cb_deal_delete_confirm(u, 2)
    \/ \E u \in DashUsers : settings = {} /\ cb_admin_change_qr(u)
    \/ \E u \in DashUsers :
          fsm_change_qr_url(u, <<"h","t","t","p","s",":","/","/","q",".","r","/","a">>)
    \/ qr_messages = <<>> /\ cmd_qr("administrator", <<"q","r","5","0","0",":","1">>, NoDealId)
    \/ cmd_qr_get_qr_url
    \/ \E u \in DashUsers : cb_pay_confirm(u, 1)
    \/ \E u \in DashUsers : cb_pay_cancel(u, 1)
    \/ \E u \in DashUsers : cb_pay_edit_caption(u)

GuardSpec == Init /\ [][GuardNext]_vars

(***************************************************************************)
(* GroupSpec: the group's save, qr, pin and help messages, whatever the    *)
(* role lookup answers, while an admin sets the QR image.                  *)
(***************************************************************************)

GroupLookups == {"administrator", "member", "error"}

GroupNext ==
    \/ \E t \in EditTasks, lookup \in GroupLookups :
          cmd_save(t, lookup, TRUE, FilledForm)
    \/ \E t \in EditTasks : next_deal_id(t)
    \/ \E t \in EditTasks : create_deal_insert(t)
    \/ cb_admin_change_qr("8313065945")
    \/ fsm_change_qr_url("8313065945", <<"h","t","t","p","s",":","/","/","q",".","r","/","a">>)
    \/ \E lookup \in GroupLookups, text \in QrTexts :
          Len(qr_messages) < MaxQr /\ cmd_qr(lookup, text, NoDealId)
    \/ cmd_qr_get_qr_url
    \/ \E lookup \in GroupLookups : cmd_help(lookup)
    \/ \E lookup \in GroupLookups, has_reply \in BOOLEAN, bad_request \in BOOLEAN :
          cmd_pin(lookup, has_reply, bad_request)

GroupSpec == Init /\ [][GroupNext]_vars

(***************************************************************************)
(* ScopeSpec: updates come in from private chats, from the two groups of   *)
(* the configuration and from other groups; the handlers run for the       *)
(* update the middleware has let through.                                  *)
(***************************************************************************)

\* Messages and callback queries of each chat, a callback query without a
\* message and a channel post.
ScopeEvents ==
    LET chats == {[type |-> "private", id |-> "8313065945"],
                  [type |-> "supergroup", id |-> "ESCROW_GROUP_ID"],
                  [type |-> "supergroup", id |-> "MAIN_GROUP_ID"],
                  [type |-> "supergroup", id |-> "other"],
                  [type |-> "group", id |-> "other"]}
    IN  {[message |-> [chat |-> c], callback_query |-> None] : c \in chats}
        \cup {[message |-> None, callback_query |-> [message |-> [chat |-> c]]] : c \in chats}
        \cup {[message |-> None, callback_query |-> [message |-> None]],
              [message |-> None, callback_query |-> None]}

ScopeNext ==
    \/ \E event \in ScopeEvents : feed_update(event)
    \/ /\ dispatcher.update # None
       /\ dispatcher.update.outcome = "handler"
       /\ dispatcher.update.event.message # None
       /\ dispatcher.update.event.message.chat.id = "ESCROW_GROUP_ID"
       /\ \E t \in EditTasks : cmd_save(t, "administrator", TRUE, FilledForm)
    \/ \E t \in EditTasks : next_deal_id(t)
    \/ \E t \in EditTasks : create_deal_insert(t)
    \/ /\ dispatcher.update # None
       /\ dispatcher.update.outcome = "handler"
       /\ dispatcher.update.event.message # None
       /\ dispatcher.update.event.message.chat.type = "private"
       /\ \/ cmd_start(dispatcher.update.event.message.chat.id)
          \/ fsm_change_qr_url(dispatcher.update.event.message.chat.id,
                               <<"h","t","t","p","s",":","/","/","q",".","r","/","a">>)
    \/ /\ dispatcher.update # None
       /\ dispatcher.update.outcome = "handler"
       /\ dispatcher.update.event.callback_query # None
       /\ dispatcher.update.event.callback_query.message # None
       /\ \E u \in DashUsers :
             /\ dispatcher.update.event.callback_query.message.chat.type = "private"
                => u = dispatcher.update.event.callback_query.message.chat.id
             /\ cb_admin_change_qr(u)

ScopeSpec == Init /\ [][ScopeNext]_vars

(***************************************************************************)
(* UpsertSpec: the admins open the change-QR dialog and send URLs; the     *)
(* first writes may overlap.                                               *)
(***************************************************************************)

UpsertNext ==
    \/ \E u \in Users : cb_admin_change_qr(u)
    \/ \E u \in Users : cb_admin_home(u)
    \/ \E u \in ADMIN_IDS, text \in UrlTexts : fsm_change_qr_url(u, text)
    \/ \E u \in ADMIN_IDS, text \in UrlTexts : fsm_change_qr_url_query(u, text)
    \/ \E u \in ADMIN_IDS : fsm_change_qr_url_upsert(u)

UpsertSpec == Init /\ [][UpsertNext]_vars

(***************************************************************************)
(* DeletedSpec: one deal is saved; an admin edits it (the amount also to   *)
(* a signed number), changes its status and answers its QR message while   *)
(* the other admin deletes it.                                             *)
(***************************************************************************)

DeletedNext ==
    \/ cmd_save(1, "administrator", TRUE, FilledForm)
    \/ next_deal_id(1)
    \/ create_deal_insert(1)
    \/ \E u \in ADMIN_IDS : cb_deal_page(u, 0, "all")
    \/ cb_deal_page_keyboard
    \/ \E u \in ADMIN_IDS : cb_deal_view(u, 1)
    \/ EditsInAll < MaxEdits /\ cb_deal_edit("8313065945", 1, 0, "all")
    \/ \E f \in {"amount", "seller"} : cb_editfield_choose("8313065945", f)
    \/ \E text \in {<<" ","7","0","0"," ">>, <<"-","5">>} :
          fsm_edit_deal_value("8313065945", text)
    \/ fsm_edit_deal_value_amount("8313065945")
    \/ EditsInAll < MaxEdits /\ cb_deal_changestatus("8313065945", 1, 0, "all")
    \/ cb_setstatus("8313065945", "released")
    \/ settings = {} /\ cb_admin_change_qr("8313065945")
    \/ fsm_change_qr_url("8313065945", <<"h","t","t","p","s",":","/","/","q",".","r","/","a">>)
    \/ qr_messages = <<>> /\ cmd_qr("administrator", <<"q","r","5","0","0",":","1">>, NoDealId)
    \/ cmd_qr_get_qr_url
    \/ cb_pay_confirm("8313065945", 1)
    \/ cb_pay_cancel("8313065945", 1)
    \/ cb_pay_edit_caption("8313065945")
    \/ cb_deal_delete("6670166083", 1)
    \/ cb_deal_delete_confirm("6670166083", 1)

DeletedSpec == Init /\ [][DeletedNext]_vars

(***************************************************************************)
(* LiveSpec: the save messages, where find_one may raise.  Every storage   *)
(* call that is awaited answers or raises in the end: the event loop runs  *)
(* each task whose awaited call has completed, and the lock wakes its      *)
(* waiters in order.                                                       *)
(***************************************************************************)

LiveNext ==
    \/ SaveNext
    \/ \E t \in Tasks : next_deal_id_raises(t)

Fairness ==
    \A t \in Tasks :
        /\ WF_vars(next_deal_id(t) \/ next_deal_id_raises(t))
        /\ WF_vars(create_deal_insert(t))

LiveSpec == Init /\ [][LiveNext]_vars /\ Fairness

(***************************************************************************)
(* The claims                                                              *)
(***************************************************************************)

\* C1: once every save started on the empty store has run to its end, every
\* create_deal call has succeeded and the persisted deal_ids are exactly
\* 1..N, N being the number of create_deal calls.
AllCreatesSucceedWithIds1ToN ==
    (\A t \in Tasks : task[t].pc = "done") =>
        /\ \A t \in Tasks : task[t].parsed # None => task[t].reply = "saved"
        /\ {d.deal_id : d \in deals}
             = 1..Cardinality({t \in Tasks : task[t].parsed # None})

\* C2: two create_deal calls that both hold an id from _next_deal_id and
\* have not persisted it yet hold different ids.
OverlappingCreatesGetDistinctIds ==
    \A t1, t2 \in Tasks :
        /\ t1 # t2
        /\ task[t1].pc = "insert_one"
        /\ task[t2].pc = "insert_one"
        => task[t1].doc.deal_id # task[t2].doc.deal_id

\* C3: no two persisted deals have the same deal_id, and an insert_one of a
\* document whose deal_id is already in the store raises (cmd_save answers
\* with the database error) and leaves the store as it was.
UniqueDealIds ==
    /\ [](\A d, e \in deals : d.deal_id = e.deal_id => d = e)
    /\ [][\A t \in Tasks :
            /\ create_deal_insert(t)
            /\ \E d \in deals : d.deal_id = task[t].doc.deal_id
            => /\ deals' = deals
               /\ task'[t].reply = "database_error"]_vars

\* C3, its case: an insert_one was refused while the deal holding the
\* deal_id is in the store.
DuplicateInsertRefused ==
    \E t \in Tasks :
        /\ task[t].reply = "database_error"
        /\ \E d \in deals : d.deal_id = task[t].doc.deal_id

\* C4: the deal_id of a record create_deal persists is none that an earlier
\* deal carried (the ids on the keyboards are those of the deals persisted
\* so far, deleted or not).
DeletedIdNeverReassigned ==
    [][\A t \in Tasks :
          create_deal_insert(t) /\ task'[t].reply = "saved"
          => task[t].doc.deal_id \notin keyboards.deal_ids]_vars

\* C5: the ids _next_deal_id has returned, in the order it returned them,
\* are strictly increasing.
AssignedIdsStrictlyIncreasing ==
    \A i, j \in 1..Len(assigned) : i < j => assigned[i] < assigned[j]

\* C6: round to hundredths of amount * rate / 1000, a half rounding up.
round2_half_up(amount, rate) ==
    IF (amount * rate) % 1000 >= 500
    THEN (amount * rate) \div 1000 + 1
    ELSE (amount * rate) \div 1000

\* C6: round to hundredths of amount * rate / 1000, a half rounding to the
\* even hundredth.
round2_half_even(amount, rate) ==
    IF (amount * rate) % 1000 = 500 /\ ((amount * rate) \div 1000) % 2 = 0
    THEN (amount * rate) \div 1000
    ELSE round2_half_up(amount, rate)

\* C6: the fee FeeCalculator.calculate returns is the tier table's: 10.00
\* below 190, 20.00 from 190 to 599, 3.5% from 600 to 2000 and 3% above,
\* the percentage rounded to hundredths (a half up, or a half to even).
FeeMatchesTierTable ==
    fee_call.pc = "returned" =>
        fee_call.fee \in
            IF fee_call.amount < 19000 THEN {1000}
            ELSE IF fee_call.amount <= 59900 THEN {2000}
            ELSE IF fee_call.amount <= 200000
            THEN {round2_half_up(fee_call.amount, 35), round2_half_even(fee_call.amount, 35)}
            ELSE {round2_half_up(fee_call.amount, 30), round2_half_even(fee_call.amount, 30)}

\* C7: _parse_form returns None exactly when one of the six labels (in any
\* case of its letters) is missing from the text or the amount is not a
\* number, and otherwise a record of the six fields, each with a value,
\* seller and buyer without a leading '@'.
ParseRejectsOnlyMissingLabelOrAmount ==
    form_call.pc = "returned" =>
        IF \/ \E k \in 1..Len(patterns) : \A i \in 1..Len(form_call.text) :
                  ~LabelAt(form_call.text, i, patterns[k].label)
           \/ re_search(form_call.text, patterns[4]) = NoMatch
           \/ float_raises(re_search(form_call.text, patterns[4]))
        THEN form_call.result = None
        ELSE /\ form_call.result # None
             /\ DOMAIN form_call.result = FormKeys
             /\ \A k \in FormKeys \ {"amount"} : form_call.result[k] # <<>>
             /\ form_call.result.seller[1] # "@"
             /\ form_call.result.buyer[1] # "@"

\* C8: a create_deal that succeeds adds exactly one record to the store and
\* changes none: the record has status pending, the fee of its amount, the
\* six fields of the arguments, and is what create_deal returns.
CreatePersistsOneRecord ==
    [][\A t \in Tasks :
          create_deal_insert(t) /\ task'[t].reply = "saved"
          => \E doc \in deals' \ deals :
                /\ deals' = deals \cup {doc}
                /\ doc.status = "pending"
                /\ doc.escrow_fee = calculate(doc.amount)
                /\ \A k \in FormKeys : doc[k] = task[t].parsed[k]
                /\ task'[t].doc = doc]_vars

\* C8, its case: the lower-case form was saved as a pending deal of amount
\* 189.99 and fee 10.00 beside another deal.
LowerCaseFormSaved ==
    \E t \in Tasks, d \in deals :
        /\ task[t].reply = "saved"
        /\ task[t].doc = d
        /\ d.amount = 18999
        /\ d.escrow_fee = 1000
        /\ d.buyer = <<"f","a","y">>
        /\ Cardinality(deals) = 2

\* C9: when the edit dialog completes for the field amount with the number
\* v on a deal that is in the store, the deal has amount v and the fee of v.
AmountEditSetsAmountAndFee ==
    [][\A u \in ADMIN_IDS :
          fsm_edit_deal_value_amount(u)
          => \A d \in deals' :
                d.deal_id = edit[u].deal_id
                => /\ d.amount = edit[u].value
                   /\ d.escrow_fee = calculate(edit[u].value)]_vars

\* C10: when the edit dialog completes for a field other than amount, the
\* deals with another deal_id are as they were, and the deal with the
\* deal_id of the dialog is as it was but for that field.
EditChangesOnlyTheField ==
    [][\A u \in ADMIN_IDS, text \in EditTexts :
          /\ fsm_edit_deal_value(u, text)
          /\ {"deal_id", "edit_field"} \subseteq DOMAIN session[u].data
          /\ session[u].data.edit_field # "amount"
          => /\ {d \in deals' : d.deal_id # session[u].data.deal_id}
                  = {d \in deals : d.deal_id # session[u].data.deal_id}
             /\ Cardinality(deals') = Cardinality(deals)
             /\ \A d \in deals : d.deal_id = session[u].data.deal_id =>
                   \E e \in deals' :
                      /\ DOMAIN e = DOMAIN d
                      /\ \A k \in DOMAIN d \ {session[u].data.edit_field} :
                            e[k] = d[k]]_vars

\* C10, its case: the seller of one deal was edited to "cy" (typed "@cy"),
\* its buyer and fee are those of the form, and the other deal has the
\* seller of the form.
SellerEditedOnOneDeal ==
    \E d, e \in deals :
        /\ d.seller = <<"c","y">>
        /\ d.buyer = <<"b","o">>
        /\ d.escrow_fee = 2000
        /\ e.deal_id # d.deal_id
        /\ e.seller = <<"a","l">>

\* C11: after a delete confirmation has run delete_deal(d), get_deal(d) finds
\* nothing; where no deal has the id d the store is as it was and the
\* handler runs to its end (the session is cleared); and the deals with
\* another id are as they were.
DeleteIsHardAndIdempotent ==
    [][\A u \in ADMIN_IDS, d \in 1..NumTasks :
          cb_deal_delete_confirm(u, d)
          => /\ get_deal(deals', d) = None
             /\ get_deal(deals, d) = None => deals' = deals
             /\ {x \in deals' : x.deal_id # d} = {x \in deals : x.deal_id # d}
             /\ session'[u] = NoSession]_vars

\* C11, its case: a deal whose id the dashboards show has been deleted and
\* another deal is still in the store.
DealDeletedBesideAnother ==
    \E d \in keyboards.deal_ids :
        /\ get_deal(deals, d) = None
        /\ \E x \in deals : x.deal_id # d

\* C12: list_deals(status_filter, skip, limit) returns the deals matching
\* the filter at the positions skip+1 .. skip+limit of the order by
\* deal_id descending: no deal of another status, at most limit deals,
\* strictly descending ids, every returned deal preceded by exactly skip
\* plus its position matching deals of a higher id, none left out while
\* fewer than limit are returned; and total is the number of matching deals.
ListIsThePageOfTheFilter ==
    list_call.pc = "returned" =>
        \E rows \in {list_call.deals}, sf \in {list_call.status_filter} :
            /\ \A i \in 1..Len(rows) :
                  /\ rows[i] \in deals
                  /\ sf # NoFilter => rows[i].status = sf
                  /\ Cardinality({d \in deals :
                        /\ sf # NoFilter => d.status = sf
                        /\ d.deal_id > rows[i].deal_id}) = list_call.skip + i - 1
            /\ \A i \in 1..(Len(rows) - 1) : rows[i].deal_id > rows[i + 1].deal_id
            /\ Len(rows) <= list_call.limit
            /\ list_call.total = Cardinality({d \in deals : sf # NoFilter => d.status = sf})
            /\ Len(rows) = IF list_call.total - list_call.skip < 0 THEN 0
                           ELSE IF list_call.total - list_call.skip < list_call.limit
                           THEN list_call.total - list_call.skip
                           ELSE list_call.limit

\* C12, its case: the second page of the paid deals, with a pending deal
\* between them in the store and more paid deals than the page holds.
SecondPageOfPaid ==
    /\ list_call.pc = "returned"
    /\ list_call.status_filter = "paid"
    /\ list_call.skip = 1
    /\ list_call.limit = 1
    /\ list_call.total = 2
    /\ Len(list_call.deals) = 1
    /\ \E d \in deals : d.status = "pending" /\ d.deal_id = 2

\* C13: a qr command for a stored deal computes its total as the payment
\* amount plus the escrow_fee the deal holds at that step, and where a QR
\* image is configured the message sent shows that deal and that total
\* (a payment of 500 on a fee of 20.00 shows 520.00).
QrTotalIsAmountPlusStoredFee ==
    [][/\ qr_call.pc = "idle" /\ qr_call'.pc = "get_qr_url"
            => \E deal \in deals :
                  /\ deal.deal_id = qr_call'.deal_id
                  /\ qr_call'.total = qr_call'.payment_amount + deal.escrow_fee
       /\ qr_call.pc = "get_qr_url" /\ qr_call'.pc = "idle" /\ get_qr_url(settings) # None
            => /\ Len(qr_messages') = Len(qr_messages) + 1
               /\ qr_messages'[Len(qr_messages')].deal_id = qr_call.deal_id
               /\ qr_messages'[Len(qr_messages')].payment_amount = qr_call.payment_amount
               /\ qr_messages'[Len(qr_messages')].total = qr_call.total
       /\ \A m \in 1..Len(qr_messages') :
            /\ qr_messages'[m].total
                 = qr_messages'[m].payment_amount + qr_messages'[m].escrow_fee
            /\ qr_messages'[m].payment_amount = 50000 /\ qr_messages'[m].escrow_fee = 2000
                 => qr_messages'[m].total = 52000]_vars

\* C13, its case: a QR message for a payment of 500 on deal 1, whose fee was
\* 20.00 when the deal was read and is 24.50 now that its amount is 700.
QrMessageShowsFeeAtRequest ==
    \E m \in 1..Len(qr_messages), d \in deals :
        /\ qr_messages[m].deal_id = d.deal_id
        /\ qr_messages[m].payment_amount = 50000
        /\ qr_messages[m].total = 52000
        /\ d.amount = 70000
        /\ d.escrow_fee = 2450

\* C14: when an admin presses Paid on a QR message the status of its deal
\* becomes paid, and when an admin presses Cancel it becomes cancelled,
\* whatever the status was; the deal keeps its other fields and the other
\* deals are as they were; and the handler ends by removing the buttons of
\* that message.
PayButtonsSetTheStatus ==
    [][\A u \in ADMIN_IDS :
          /\ \A m \in 1..MaxQr :
               /\ cb_pay_confirm(u, m)
                    => /\ deals' = {IF x.deal_id = qr_messages[m].deal_id
                                    THEN [x EXCEPT !.status = "paid"] ELSE x : x \in deals}
                       /\ edit'[u].pc = "edit_caption" /\ edit'[u].message = m
               /\ cb_pay_cancel(u, m)
                    => /\ deals' = {IF x.deal_id = qr_messages[m].deal_id
                                    THEN [x EXCEPT !.status = "cancelled"] ELSE x : x \in deals}
                       /\ edit'[u].pc = "edit_caption" /\ edit'[u].message = m
          /\ cb_pay_edit_caption(u)
               => /\ ~qr_messages'[edit[u].message].buttons
                  /\ deals' = deals]_vars

\* C14, its case: one admin has pressed Cancel and the other Paid on the
\* message of a deal, the deal is now paid, and another deal is still
\* pending.
PaidOverCancelled ==
    \E u, v \in ADMIN_IDS, m \in 1..Len(qr_messages) :
        /\ edit[u] = [pc |-> "edit_caption", message |-> m, status |-> "cancelled"]
        /\ edit[v] = [pc |-> "edit_caption", message |-> m, status |-> "paid"]
        /\ \E d \in deals : d.deal_id = qr_messages[m].deal_id /\ d.status = "paid"
        /\ \E d \in deals : d.deal_id # qr_messages[m].deal_id /\ d.status = "pending"

\* C15: in waiting_url a message that starts with neither http:// nor
\* https:// leaves the session in waiting_url and the stored QR URL as it
\* was.
UrlWithoutSchemeIsRejected ==
    [][\A u \in ADMIN_IDS, text \in UrlTexts :
          /\ fsm_change_qr_url(u, text)
          /\ ~startswith(strip(text), <<"h","t","t","p",":","/","/">>)
          /\ ~startswith(strip(text), <<"h","t","t","p","s",":","/","/">>)
          => /\ session'[u] = session[u]
             /\ settings' = settings]_vars

\* C16: in waiting_url an admin's message that starts with http:// or
\* https:// is stored by set_qr_url, the session is cleared, and get_qr_url
\* then returns the message without the white space around it; the
\* settings collection holds one document.
UrlIsStoredAndSessionCleared ==
    [][\A u \in ADMIN_IDS, text \in UrlTexts :
          /\ fsm_change_qr_url(u, text)
          /\ \/ startswith(strip(text), <<"h","t","t","p",":","/","/">>)
             \/ startswith(strip(text), <<"h","t","t","p","s",":","/","/">>)
          => /\ get_qr_url(settings') # None
             /\ get_qr_url(settings') = strip(text)
             /\ Cardinality(settings') = 1
             /\ session'[u] = NoSession]_vars

\* C16, its case: the URL was set, a QR message was sent with it, and the
\* URL has been replaced by the one sent with blanks around it.
SecondUrlReplacedTheFirst ==
    /\ settings = {[qr_image_url |-> <<"h","t","t","p",":","/","/","q",".","r","/","b">>]}
    /\ \E m \in 1..Len(qr_messages) :
          qr_messages[m].photo = <<"h","t","t","p","s",":","/","/","q",".","r","/","a">>

\* C17: when an admin whose session is in choose_field or waiting_value
\* presses Cancel on the field keyboard, the session is cleared, the deals
\* are as they were, and the Back button leads to the deal the dialog was
\* entered with: the context holds its deal_id, an id the dashboards show.
EditCancelReturnsToItsDeal ==
    [][\A u \in ADMIN_IDS :
          /\ cb_editfield_choose(u, "cancel")
          /\ session[u].state \in {"choose_field", "waiting_value"}
          => /\ session'[u] = NoSession
             /\ deals' = deals
             /\ "deal_id" \in DOMAIN session[u].data
             /\ get_deal_id(session[u].data) \in keyboards.deal_ids]_vars

\* C18: in waiting_value with edit_field = amount, a message that float()
\* rejects (here one with a character that is no digit, point, sign or
\* blank) leaves the session as it is, with its state and its whole
\* context, starts no write and leaves every deal as it is.
NonNumericAmountChangesNothing ==
    [][\A u \in ADMIN_IDS, text \in EditTexts :
          /\ session[u].state = "waiting_value"
          /\ "edit_field" \in DOMAIN session[u].data
          /\ session[u].data.edit_field = "amount"
          /\ \E k \in 1..Len(text) : text[k] \notin Digits \cup {".", "+", "-", " "}
          /\ fsm_edit_deal_value(u, text)
          => /\ session'[u] = session[u]
             /\ edit'[u] = edit[u]
             /\ deals' = deals]_vars

\* C18, its case: an admin is asked for the new amount of a stored deal,
\* with the whole context of the dialog in the session.
AmountAwaited ==
    \E u \in ADMIN_IDS :
        /\ session[u].state = "waiting_value"
        /\ DOMAIN session[u].data = {"deal_id", "edit_field", "page", "status_filter"}
        /\ session[u].data.edit_field = "amount"
        /\ \E d \in deals : d.deal_id = session[u].data.deal_id
        /\ edit[u].pc = "idle"

\* C19: Change Status on deal d opens the dialog for d; while the session
\* is in waiting_status, choosing pending, paid or cancelled sets the status
\* of that deal to the choice, whatever it was, changes nothing else in the
\* store and clears the session; choosing cancel clears the session and
\* leaves the store as it was.
StatusChoiceSetsTheStatus ==
    [][\A u \in ADMIN_IDS :
          /\ \A d \in EditTasks :
               cb_deal_changestatus(u, d, 0, "all")
               => /\ session'[u].state = "waiting_status"
                  /\ session'[u].data.deal_id = d
                  /\ deals' = deals
          /\ session[u].state = "waiting_status"
               => /\ \A s \in Statuses :
                       cb_setstatus(u, s)
                       => /\ deals' = {IF x.deal_id = session[u].data.deal_id
                                       THEN [x EXCEPT !.status = s] ELSE x : x \in deals}
                          /\ session'[u] = NoSession
                  /\ cb_setstatus(u, "cancel")
                       => /\ deals' = deals
                          /\ session'[u] = NoSession]_vars

\* C19, its case: the deal paid through its QR message has been set back to
\* pending in the change-status dialog, and the session is cleared.
PaidSetBackToPending ==
    \E m \in 1..Len(qr_messages), d \in deals :
        /\ ~qr_messages[m].buttons
        /\ d.deal_id = qr_messages[m].deal_id
        /\ d.status = "pending"
        /\ edit["8313065945"].pc = "idle"
        /\ edits["8313065945"] = 1
        /\ session["8313065945"] = NoSession
        /\ \E e \in deals : e.deal_id # d.deal_id

\* C20: the status of every stored deal is pending, paid or cancelled; a
\* deal is stored as pending; and the status of a stored deal changes only
\* in a step of cb_setstatus, cb_pay_confirm or cb_pay_cancel by an admin:
\* never in a step of create, edit-field, list, view or QR issuance.
StatusChangesOnlyByAdminAction ==
    [][/\ \A d \in deals' : d.status \in Statuses
       /\ \A d \in deals' : (\A e \in deals : e.oid # d.oid) => d.status = "pending"
       /\ (\E d \in deals, e \in deals' : d.oid = e.oid /\ d.status # e.status)
            => \/ \E u \in ADMIN_IDS, s \in Statuses : cb_setstatus(u, s)
               \/ \E u \in ADMIN_IDS, m \in 1..MaxQr :
                     cb_pay_confirm(u, m) \/ cb_pay_cancel(u, m)]_vars

\* C20, its case: one deal was cancelled through its QR message and the
\* other set to paid in the change-status dialog, after the deals were
\* listed.
BothStatusesChanged ==
    /\ \E m \in 1..Len(qr_messages), d \in deals, e \in deals :
          /\ ~qr_messages[m].buttons
          /\ d.deal_id = qr_messages[m].deal_id
          /\ d.status = "cancelled"
          /\ e.deal_id # d.deal_id
          /\ e.status = "paid"
    /\ edits["8313065945"] = 1
    /\ keyboards.deal_view # {}

\* The context a dialog is entered with: the deal and the list position it
\* was opened from, or nothing for the change-QR dialog.
FlowContextKeys(flow_state) ==
    IF flow_state = "waiting_url" THEN {} ELSE {"deal_id", "page", "status_filter"}

\* C21: when an admin whose session holds a flow in progress enters the
\* edit dialog, the change-status dialog or the change-QR dialog, the
\* session afterwards holds the state of the new flow and exactly the
\* context keys the new flow was entered with: none of the prior flow's
\* keys is left.
FlowEntryDiscardsThePriorFlow ==
    [][\A u \in ADMIN_IDS :
          /\ session[u].state # "none"
          /\ session'[u] # session[u]
          /\ session'[u].state \in {"choose_field", "waiting_status", "waiting_url"}
          => DOMAIN session'[u].data = FlowContextKeys(session'[u].state)]_vars

\* C22: after an admin completes or cancels a flow, or goes to the home,
\* sends /start, opens a list page or a deal view while a flow is active,
\* the session state is none.
NavigationClearsTheSession ==
    [][\A u \in ADMIN_IDS :
          /\ session[u].state # "none"
          /\ \/ cb_admin_home(u)
             \/ cmd_start(u)
             \/ \E sf \in {"all", "paid"} : cb_deal_page(u, 0, sf)
             \/ \E d \in EditTasks : cb_deal_view(u, d)
             \/ \E s \in Statuses \cup {"cancel"} : cb_setstatus(u, s)
             \/ cb_editfield_choose(u, "cancel")
             \/ fsm_edit_deal_value_amount(u)
             \/ \E text \in EditTexts : /\ fsm_edit_deal_value(u, text)
                                         /\ edit'[u].pc = "idle"
                                         /\ deals' # deals
             \/ \E text \in UrlTexts : fsm_change_qr_url(u, text) /\ settings' # settings
          => session'[u].state = "none"]_vars

\* C23: a step in which a user who is not in ADMIN_IDS presses a button of
\* the dashboard, of a dialog or of a QR message, sends /start or sends a
\* dialog's text message leaves the deals, the settings record and every
\* session as they were.
NonAdminChangesNothing ==
    [][\A u \in Users \ ADMIN_IDS :
          \/ cb_admin_home(u)
          \/ cmd_start(u)
          \/ cb_deal_page(u, 0, "all")
          \/ \E d \in EditTasks : cb_deal_view(u, d)
          \/ cb_deal_edit(u, 1, 0, "all")
          \/ cb_deal_changestatus(u, 2, 0, "all")
          \/ cb_deal_delete(u, 2)
          \/ cb_deal_delete_confirm(u, 2)
          \/ cb_admin_change_qr(u)
          \/ \E f \in {"amount", "cancel"} : cb_editfield_choose(u, f)
          \/ \E s \in {"paid", "cancel"} : cb_setstatus(u, s)
          \/ fsm_edit_deal_value(u, <<" ","7","0","0"," ">>)
          \/ fsm_change_qr_url(u, <<"h","t","t","p","s",":","/","/","q",".","r","/","a">>)
          \/ cb_pay_confirm(u, 1)
          \/ cb_pay_cancel(u, 1)
          => /\ deals' = deals
             /\ settings' = settings
             /\ session' = session]_vars

\* C23, its case: the user who is no admin was refused at /start and at a
\* button while two deals and the QR image were stored, the buttons of a QR
\* message were live and an admin was in the edit dialog; that user has no
\* session.
NonAdminWasRefused ==
    /\ {<<"1001", "Admins only.">>, <<"1001", "Access Denied">>} \subseteq dispatcher.notices
    /\ session["1001"] = NoSession
    /\ session["8313065945"].state = "waiting_value"
    /\ Cardinality(deals) = 2
    /\ settings # {}
    /\ \E m \in 1..Len(qr_messages) : qr_messages[m].buttons

\* C24: when the role lookup fails, or answers a role that is neither
\* administrator nor creator, save, qr, pin and help end without a reply
\* or notice: the save's task is done with no document and no wait for
\* the lock, no QR call is in flight, and the deals and the QR messages
\* are as they were.
GroupAdminCheckFailsClosed ==
    [][\A lookup \in GroupLookups \ {"administrator", "creator"} :
          /\ \A t \in EditTasks :
                cmd_save(t, lookup, TRUE, FilledForm)
                => /\ task'[t] = [IdleTask EXCEPT !.pc = "done", !.reply = "ignored"]
                   /\ lock_waiters' = lock_waiters
          /\ \A text \in QrTexts :
                cmd_qr(lookup, text, NoDealId)
                => qr_call' = [pc |-> "idle", reply |-> "ignored"]
          /\ \/ \E t \in EditTasks : cmd_save(t, lookup, TRUE, FilledForm)
             \/ \E text \in QrTexts : cmd_qr(lookup, text, NoDealId)
             \/ cmd_help(lookup)
             \/ \E has_reply \in BOOLEAN, bad_request \in BOOLEAN :
                   cmd_pin(lookup, has_reply, bad_request)
             => /\ deals' = deals
                /\ qr_messages' = qr_messages
                /\ dispatcher' = dispatcher]_vars

\* C24, its case: a save and a qr command were ignored while a deal and the
\* QR image were stored, and a group admin was shown the commands and
\* pinned a message.
SaveAndQrIgnored ==
    /\ \E t \in EditTasks : task[t].pc = "done" /\ task[t].reply = "ignored"
    /\ qr_call = [pc |-> "idle", reply |-> "ignored"]
    /\ deals # {}
    /\ settings # {}
    /\ qr_messages = <<>>
    /\ {<<"escrow_group", "Commands">>, <<"escrow_group", "pinned a message">>}
          \subseteq dispatcher.notices

QrNeedsDealAndImage ==
    [][/\ qr_call.pc = "idle" /\ qr_call'.pc = "get_qr_url"
          => \E d \in deals : d.deal_id = qr_call'.deal_id
       /\ Len(qr_messages') > Len(qr_messages)
          => /\ qr_call.pc = "get_qr_url"
             /\ settings # {}
             /\ qr_messages'[Len(qr_messages')].deal_id = qr_call.deal_id
       /\ /\ qr_call.pc = "idle"
          /\ \A d \in deals : d.deal_id # 1
          /\ task' = task /\ session' = session /\ keyboards' = keyboards
          /\ cmd_qr("administrator", <<"q","r","5","0","0",":","1">>, NoDealId)
          => qr_call' = [pc |-> "idle", reply |-> "not_found"]
       /\ settings = {} /\ qr_call.pc = "get_qr_url" /\ cmd_qr_get_qr_url
          => qr_call' = [pc |-> "idle", reply |-> "no_qr_image"]
       /\ \A d \in EditTasks :
             /\ \A x \in deals : x.deal_id # d
             /\ cb_deal_view("8313065945", d)
             => <<"8313065945", "Deal not found.">> \in dispatcher'.notices
       /\ \/ qr_call' # qr_call /\ qr_call'.reply \in {"not_found", "no_qr_image"}
          \/ dispatcher'.notices # dispatcher.notices
             /\ <<"8313065945", "Deal not found.">> \in dispatcher'.notices
                   \ dispatcher.notices
          => /\ deals' = deals
             /\ settings' = settings
             /\ session' = session
             /\ qr_messages' = qr_messages]_vars

\* C26, its case: a qr command for a deal not yet saved was answered "not
\* found", and later an admin in the edit dialog was told "Deal not found."
\* at the view of a deleted deal.
MissingDealReported ==
    /\ qr_call = [pc |-> "idle", reply |-> "not_found"]
    /\ <<"8313065945", "Deal not found.">> \in dispatcher.notices
    /\ Cardinality(deals) = 1
    /\ session["8313065945"].state = "choose_field"

\* C27: the delete button only shows the prompt: the deals are as they
\* were.  A step after which a stored deal_id is no longer in the store is
\* a delete-confirm of an admin for that deal_id, and the prompt for that
\* deal_id had been shown before.
DeleteOnlyAfterItsPrompt ==
    [][/\ \A u \in Users, d \in 1..NumTasks : cb_deal_delete(u, d) => deals' = deals
       /\ \A x \in deals :
             (\A y \in deals' : y.deal_id # x.deal_id)
             => /\ x.deal_id \in keyboards.delete_confirm
                /\ \E u \in ADMIN_IDS : cb_deal_delete_confirm(u, x.deal_id)]_vars

\* C27, its case: the prompt was shown for two deals; one of them was
\* deleted and the other, not confirmed, is still in the store.
OneOfTwoPromptsConfirmed ==
    \E d, e \in keyboards.delete_confirm :
        /\ get_deal(deals, d) = None
        /\ get_deal(deals, e) # None

\* C28: no storage failure leaves a handler: whatever the storage does, no
\* handler's exception reaches the dispatcher (a failure ends in a notice
\* to the user, as the save's "Database error" does).
NoFailureLeavesAHandler ==
    dispatcher.errors = {}

\* C29: in every reachable state the seller and the buyer of every stored
\* deal are texts that do not begin with "@".
HandlesStoredWithoutAt ==
    \A d \in deals :
        /\ d.seller # <<>> => d.seller[1] # "@"
        /\ d.buyer # <<>> => d.buyer[1] # "@"

\* C29, its case: the seller of one deal was set by the edit dialog from
\* the message "@cy", and the buyer of another was saved from a form that
\* reads "@@fay".
HandleEditedAndHandleSaved ==
    /\ \E d \in deals : d.seller = <<"c","y">>
    /\ \E d \in deals : d.buyer = <<"f","a","y">>

\* C30: a document that is in the store before and after a step has the
\* same deal_id and the same created_at after it as before, whatever the
\* step: an edit of a field, a change of status, confirm-paid or
\* cancel-payment.
DealIdAndCreatedAtNeverChange ==
    [][\A d \in deals, e \in deals' :
          e.oid = d.oid => e.deal_id = d.deal_id /\ e.created_at = d.created_at]_vars

\* C30, its case: deal 1, created at tick 1, has had its seller edited and
\* its payment cancelled on the QR message, beside a second deal.
EditedAndCancelledDealKeepsItsId ==
    /\ \E d \in deals : /\ d.deal_id = 1 /\ d.created_at = 1
                        /\ d.seller = <<"c","y">> /\ d.status = "cancelled"
    /\ \E m \in 1..Len(qr_messages) : ~qr_messages[m].buttons
    /\ \E d \in deals : d.deal_id = 2

\* C31: while nothing was written get_qr_url returns None, and after every
\* write of set_qr_url, overlapping another or not, the settings collection
\* holds one document, with the URL of that write.
SettingsHoldOneRecordWithTheLatestUrl ==
    [][/\ settings = {} => get_qr_url(settings) = None
       /\ \A u \in ADMIN_IDS :
             edit[u].pc = "upsert" /\ edit'[u].pc = "idle"
             => settings' = {[qr_image_url |-> edit[u].url]}
       /\ \A u \in ADMIN_IDS, text \in UrlTexts :
             /\ edit[u].pc = "idle" /\ edit'[u].pc = "idle"
             /\ session'[u] # session[u]
             /\ fsm_change_qr_url(u, text)
             => settings' = {[qr_image_url |-> strip(text)]}]_vars

\* C32: a step of a dialog or of a QR button (no step of the save path)
\* creates no record: the deal_ids of the store after it are among those
\* before it, and a store from which the deal was deleted stays empty,
\* whether the step is a confirm-paid, a cancel-payment, a status choice or
\* a write of a field value.
UpdateOfADeletedDealChangesNothing ==
    [][task' = task
       => /\ {d.deal_id : d \in deals'} \subseteq {d.deal_id : d \in deals}
          /\ deals = {} => deals' = {}]_vars

\* The deal was deleted after the fee write of an amount edit: the amount
\* write is still to come; and a QR message of the deleted deal still has
\* its buttons.
DeletedBetweenTheTwoWrites ==
    /\ deals = {}
    /\ edit["8313065945"].pc = "update_field"
    /\ Len(qr_messages) = 1 /\ qr_messages[1].buttons

\* C33: a deal for which no amount edit is between its fee write and its
\* amount write has the fee of its amount, also when two admins edit the
\* amount of the deal at the same time.
FeeOfAmountWhenNoEditPending ==
    \A d \in deals :
        (\A u \in ADMIN_IDS :
            ~(edit[u].pc = "update_field" /\ edit[u].deal_id = d.deal_id))
        => d.escrow_fee = calculate(d.amount)

\* C34: a session in waiting_value has a context with a deal_id and with
\* an edit_field of the field keyboard.
WaitingValueHasDealIdAndField ==
    \A u \in ADMIN_IDS :
        session[u].state = "waiting_value"
        => /\ "deal_id" \in DOMAIN session[u].data
           /\ "edit_field" \in DOMAIN session[u].data
           /\ session[u].data.edit_field \in EditFields

\* C35: a status choice received while the session is not in waiting_status
\* changes no deal, and a field choice received while the session is not in
\* choose_field changes no deal and does not bring the session to
\* waiting_value.
DialogChoicesOnlyInTheirState ==
    [][\A u \in ADMIN_IDS :
          /\ /\ session[u].state # "waiting_status"
             /\ \E s \in Statuses \cup {"cancel"} : cb_setstatus(u, s)
             => deals' = deals
          /\ /\ session[u].state \notin {"choose_field", "waiting_value"}
             /\ cb_editfield_choose(u, "seller")
             => /\ deals' = deals
                /\ session'[u].state # "waiting_value"]_vars

\* C36: the amount of every deal in the store is zero or more, whether the
\* form or an edit of the field amount set it.
AmountsAreNotNegative == \A d \in deals : d.amount >= 0

\* C37: every create_deal call that has begun comes to its end, with a
\* stored document or with an error, and a lock that is held is released,
\* also where find_one raises inside the lock.
CreateDealTerminates ==
    \A t \in Tasks :
        /\ (task[t].pc \in {"acquire", "find_one", "insert_one"}) ~> (task[t].pc = "done")
        /\ (lock_holder = t) ~> (lock_holder # t)

\* find_one raised for the first save, and the second save has stored its
\* deal after it.
SavedAfterFindOneRaised ==
    /\ task[1].pc = "done" /\ task[1].reply = "database_error" /\ task[1].doc = None
    /\ task[2].pc = "done" /\ task[2].reply = "saved"
    /\ lock_holder = 0 /\ lock_waiters = <<>>
====
